---- MODULE Spec2Model ----
(***************************************************************************)
(* Model of the project-classification engine of context-engineer-agent:   *)
(* ContextEngineerAgent.analyze_project (src/src/agent.py) and the         *)
(* analyzers it calls (src/src/analyzers, src/src/utils.py), run over a    *)
(* small project tree.                                                      *)
(***************************************************************************)
EXTENDS Integers, Sequences, FiniteSets, TLC

\* ProjectAnalyzer.ignored_dirs
ignored_dirs ==
    { "node_modules", ".git", "__pycache__", ".pytest_cache", "venv", "env", ".env",
    "vendor", "dist", "build", ".next", ".nuxt", ".cache", "coverage", ".coverage", ".tox",
    ".mypy_cache", ".DS_Store", "Thumbs.db" }

\* ProjectAnalyzer.project_indicators, in declaration order
ProjectTypes ==
    <<"web", "api", "mobile", "desktop", "library", "documentation", "data", "game", "blockchain", "ai">>
project_indicators ==
    ( "web" :> <<"index.html", "package.json", "webpack.config.js", "vite.config.js">> @@
       "api" :> <<"api/", "routes/", "controllers/", "app.py", "server.js">> @@
       "mobile" :> <<"android/", "ios/", "react-native/", "flutter/">> @@
       "desktop" :> <<"electron/", "main.py", "setup.py", "Cargo.toml">> @@
       "library" :> <<"lib/", "src/lib/", "setup.py", "pyproject.toml", "Cargo.toml">> @@
       "documentation" :> <<"docs/", "README.md", "mkdocs.yml", "docusaurus.config.js">> @@
       "data" :> <<"notebooks/", "*.ipynb", "data/", "datasets/">> @@
       "game" :> <<"unity/", "godot/", "assets/textures/", "src/game/">> @@
       "blockchain" :> <<"contracts/", "truffle-config.js", "hardhat.config.js">> @@
       "ai" :> <<"models/", "training/", "ml/", "ai/", "*.ipynb", "requirements.txt">> )

\* ProjectAnalyzer.complexity_indicators, in declaration order
ComplexityLevels ==
    <<"high", "medium", "low">>
complexity_indicators ==
    ( "high" :> <<"microservices/", "kubernetes/", "docker-compose.yml", "terraform/">> @@
       "medium" :> <<"tests/", "docs/", "config/", "scripts/">> @@
       "low" :> <<"simple structure", "single file">> )

\* language_extensions of detect_languages, in declaration order
Languages ==
    << "javascript", "typescript", "python", "php", "java", "c#", "c++", "c", "go", "rust",
    "ruby", "swift", "kotlin", "dart", "scala", "r", "matlab", "shell", "powershell",
    "sql", "html", "css", "xml", "json", "yaml", "markdown" >>
language_extensions ==
    ( "javascript" :> <<".js", ".jsx", ".mjs">> @@
       "typescript" :> <<".ts", ".tsx">> @@
       "python" :> <<".py", ".pyx">> @@
       "php" :> <<".php">> @@
       "java" :> <<".java">> @@
       "c#" :> <<".cs">> @@
       "c++" :> <<".cpp", ".cc", ".cxx">> @@
       "c" :> <<".c">> @@
       "go" :> <<".go">> @@
       "rust" :> <<".rs">> @@
       "ruby" :> <<".rb">> @@
       "swift" :> <<".swift">> @@
       "kotlin" :> <<".kt">> @@
       "dart" :> <<".dart">> @@
       "scala" :> <<".scala">> @@
       "r" :> <<".r">> @@
       "matlab" :> <<".m">> @@
       "shell" :> <<".sh", ".bash">> @@
       "powershell" :> <<".ps1">> @@
       "sql" :> <<".sql">> @@
       "html" :> <<".html", ".htm">> @@
       "css" :> <<".css", ".scss", ".sass">> @@
       "xml" :> <<".xml">> @@
       "json" :> <<".json">> @@
       "yaml" :> <<".yml", ".yaml">> @@
       "markdown" :> <<".md">> )

\* FrameworkDetector.framework_patterns, in declaration order
Frameworks ==
    << "react", "vue", "angular", "svelte", "next", "nuxt", "express", "fastify", "koa",
    "nestjs", "laravel", "symfony", "codeigniter", "django", "flask", "fastapi", "tornado",
    "react-native", "flutter", "electron", "tauri", "tailwind", "bootstrap", "webpack",
    "vite", "rollup" >>
framework_patterns ==
    ( "react" :>
        [ files |-> <<"package.json">>,
          dependencies |-> <<"react", "react-dom">>,
          patterns |-> <<"import.*from.*react", "jsx", "tsx">>,
          config_files |-> <<"webpack.config.js", "vite.config.js", "craco.config.js">> ] @@
       "vue" :>
        [ files |-> <<"package.json">>,
          dependencies |-> <<"vue", "@vue/cli">>,
          patterns |-> <<"<template>", "<script>", "<style>">>,
          config_files |-> <<"vue.config.js", "vite.config.js">> ] @@
       "angular" :>
        [ files |-> <<"package.json", "angular.json">>,
          dependencies |-> <<"@angular/core", "@angular/cli">>,
          patterns |-> <<"@Component", "@Injectable", "@NgModule">>,
          config_files |-> <<"angular.json", "tsconfig.json">> ] @@
       "svelte" :>
        [ files |-> <<"package.json">>,
          dependencies |-> <<"svelte">>,
          patterns |-> <<"<script>", "<style>", "<div>">>,
          config_files |-> <<"svelte.config.js", "vite.config.js">> ] @@
       "next" :>
        [ files |-> <<"package.json">>,
          dependencies |-> <<"next">>,
          patterns |-> <<"pages/", "app/", "getServerSideProps">>,
          config_files |-> <<"next.config.js">> ] @@
       "nuxt" :>
        [ files |-> <<"package.json">>,
          dependencies |-> <<"nuxt">>,
          patterns |-> <<"pages/", "layouts/", "plugins/">>,
          config_files |-> <<"nuxt.config.js">> ] @@
       "express" :>
        [ files |-> <<"package.json">>,
          dependencies |-> <<"express">>,
          patterns |-> <<"app.use", "app.get", "app.post", "require.*express">>,
          config_files |-> <<"server.js", "app.js", "index.js">> ] @@
       "fastify" :>
        [ files |-> <<"package.json">>,
          dependencies |-> <<"fastify">>,
          patterns |-> <<"fastify.register", "fastify.get", "fastify.post">>,
          config_files |-> <<"server.js", "app.js">> ] @@
       "koa" :>
        [ files |-> <<"package.json">>,
          dependencies |-> <<"koa">>,
          patterns |-> <<"app.use", "ctx.body", "require.*koa">>,
          config_files |-> <<"app.js", "server.js">> ] @@
       "nestjs" :>
        [ files |-> <<"package.json">>,
          dependencies |-> <<"@nestjs/core", "@nestjs/common">>,
          patterns |-> <<"@Controller", "@Injectable", "@Module">>,
          config_files |-> <<"nest-cli.json", "main.ts">> ] @@
       "laravel" :>
        [ files |-> <<"composer.json", "artisan">>,
          dependencies |-> <<"laravel/framework">>,
          patterns |-> <<"<?php", "namespace App", "use Illuminate">>,
          config_files |-> <<"config/app.php", "routes/web.php", ".env">> ] @@
       "symfony" :>
        [ files |-> <<"composer.json">>,
          dependencies |-> <<"symfony/framework-bundle">>,
          patterns |-> <<"namespace App", "use Symfony">>,
          config_files |-> <<"config/services.yaml", "bin/console">> ] @@
       "codeigniter" :>
        [ files |-> <<"composer.json">>,
          dependencies |-> <<"codeigniter4/framework">>,
          patterns |-> <<"class.*extends.*Controller", "CI_Controller">>,
          config_files |-> <<"app/Config/", "system/">> ] @@
       "django" :>
        [ files |-> <<"requirements.txt", "manage.py">>,
          dependencies |-> <<"Django">>,
          patterns |-> <<"from django", "import django", "INSTALLED_APPS">>,
          config_files |-> <<"settings.py", "urls.py", "wsgi.py">> ] @@
       "flask" :>
        [ files |-> <<"requirements.txt">>,
          dependencies |-> <<"Flask">>,
          patterns |-> <<"from flask", "app = Flask", "@app.route">>,
          config_files |-> <<"app.py", "main.py", "run.py">> ] @@
       "fastapi" :>
        [ files |-> <<"requirements.txt">>,
          dependencies |-> <<"fastapi">>,
          patterns |-> <<"from fastapi", "app = FastAPI", "@app.get">>,
          config_files |-> <<"main.py", "app.py">> ] @@
       "tornado" :>
        [ files |-> <<"requirements.txt">>,
          dependencies |-> <<"tornado">>,
          patterns |-> <<"import tornado", "tornado.web">>,
          config_files |-> <<"app.py", "main.py">> ] @@
       "react-native" :>
        [ files |-> <<"package.json">>,
          dependencies |-> <<"react-native">>,
          patterns |-> <<"import.*react-native", "AppRegistry">>,
          config_files |-> <<"metro.config.js", "index.js">> ] @@
       "flutter" :>
        [ files |-> <<"pubspec.yaml">>,
          dependencies |-> <<"flutter">>,
          patterns |-> <<"import.*flutter", "StatelessWidget", "StatefulWidget">>,
          config_files |-> <<"pubspec.yaml", "analysis_options.yaml">> ] @@
       "electron" :>
        [ files |-> <<"package.json">>,
          dependencies |-> <<"electron">>,
          patterns |-> <<"require.*electron", "BrowserWindow">>,
          config_files |-> <<"main.js", "preload.js">> ] @@
       "tauri" :>
        [ files |-> <<"Cargo.toml", "tauri.conf.json">>,
          dependencies |-> <<"tauri">>,
          patterns |-> <<"#[tauri::command]", "tauri::">>,
          config_files |-> <<"tauri.conf.json">> ] @@
       "tailwind" :>
        [ files |-> <<"package.json">>,
          dependencies |-> <<"tailwindcss">>,
          patterns |-> <<"@tailwind", "tailwind.config">>,
          config_files |-> <<"tailwind.config.js">> ] @@
       "bootstrap" :>
        [ files |-> <<"package.json">>,
          dependencies |-> <<"bootstrap">>,
          patterns |-> <<"import.*bootstrap", "class.*btn">>,
          config_files |-> <<>> ] @@
       "webpack" :>
        [ files |-> <<"package.json">>,
          dependencies |-> <<"webpack">>,
          patterns |-> <<"module.exports", "entry:", "output:">>,
          config_files |-> <<"webpack.config.js">> ] @@
       "vite" :>
        [ files |-> <<"package.json">>,
          dependencies |-> <<"vite">>,
          patterns |-> <<"import.meta.env", "defineConfig">>,
          config_files |-> <<"vite.config.js", "vite.config.ts">> ] @@
       "rollup" :>
        [ files |-> <<"package.json">>,
          dependencies |-> <<"rollup">>,
          patterns |-> <<"export default", "input:", "output:">>,
          config_files |-> <<"rollup.config.js">> ] )

\* Python str values as character sequences: every string literal the modelled code
\* inspects character by character (endswith, in, lower, split, suffix).
Chars ==
    ( "" :> <<>> @@
       "!=" :> <<"!", "=">> @@
       "#[tauri::command]" :> <<"#", "[", "t", "a", "u", "r", "i", ":", ":", "c", "o", "m", "m", "a", "n", "d", "]">> @@
       "*.ipynb" :> <<"*", ".", "i", "p", "y", "n", "b">> @@
       ".bash" :> <<".", "b", "a", "s", "h">> @@
       ".c" :> <<".", "c">> @@
       ".cc" :> <<".", "c", "c">> @@
       ".claude" :> <<".", "c", "l", "a", "u", "d", "e">> @@
       ".context-engineer" :> <<".", "c", "o", "n", "t", "e", "x", "t", "-", "e", "n", "g", "i", "n", "e", "e", "r">> @@
       ".cpp" :> <<".", "c", "p", "p">> @@
       ".cs" :> <<".", "c", "s">> @@
       ".css" :> <<".", "c", "s", "s">> @@
       ".cxx" :> <<".", "c", "x", "x">> @@
       ".dart" :> <<".", "d", "a", "r", "t">> @@
       ".env" :> <<".", "e", "n", "v">> @@
       ".eslintrc.js" :> <<".", "e", "s", "l", "i", "n", "t", "r", "c", ".", "j", "s">> @@
       ".github" :> <<".", "g", "i", "t", "h", "u", "b">> @@
       ".go" :> <<".", "g", "o">> @@
       ".htm" :> <<".", "h", "t", "m">> @@
       ".html" :> <<".", "h", "t", "m", "l">> @@
       ".java" :> <<".", "j", "a", "v", "a">> @@
       ".js" :> <<".", "j", "s">> @@
       ".json" :> <<".", "j", "s", "o", "n">> @@
       ".jsx" :> <<".", "j", "s", "x">> @@
       ".kt" :> <<".", "k", "t">> @@
       ".m" :> <<".", "m">> @@
       ".md" :> <<".", "m", "d">> @@
       ".mjs" :> <<".", "m", "j", "s">> @@
       ".php" :> <<".", "p", "h", "p">> @@
       ".ps1" :> <<".", "p", "s", "1">> @@
       ".py" :> <<".", "p", "y">> @@
       ".pyx" :> <<".", "p", "y", "x">> @@
       ".r" :> <<".", "r">> @@
       ".rb" :> <<".", "r", "b">> @@
       ".rs" :> <<".", "r", "s">> @@
       ".sass" :> <<".", "s", "a", "s", "s">> @@
       ".scala" :> <<".", "s", "c", "a", "l", "a">> @@
       ".scss" :> <<".", "s", "c", "s", "s">> @@
       ".sh" :> <<".", "s", "h">> @@
       ".sql" :> <<".", "s", "q", "l">> @@
       ".svelte" :> <<".", "s", "v", "e", "l", "t", "e">> @@
       ".swift" :> <<".", "s", "w", "i", "f", "t">> @@
       ".ts" :> <<".", "t", "s">> @@
       ".tsx" :> <<".", "t", "s", "x">> @@
       ".txt" :> <<".", "t", "x", "t">> @@
       ".vue" :> <<".", "v", "u", "e">> @@
       ".xml" :> <<".", "x", "m", "l">> @@
       ".yaml" :> <<".", "y", "a", "m", "l">> @@
       ".yml" :> <<".", "y", "m", "l">> @@
       "/home/dev/app" :> <<"/", "h", "o", "m", "e", "/", "d", "e", "v", "/", "a", "p", "p">> @@
       "1.0" :> <<"1", ".", "0">> @@
       "<" :> <<"<">> @@
       "<=" :> <<"<", "=">> @@
       "<?php" :> <<"<", "?", "p", "h", "p">> @@
       "<div>" :> <<"<", "d", "i", "v", ">">> @@
       "<script>" :> <<"<", "s", "c", "r", "i", "p", "t", ">">> @@
       "<style>" :> <<"<", "s", "t", "y", "l", "e", ">">> @@
       "<template>" :> <<"<", "t", "e", "m", "p", "l", "a", "t", "e", ">">> @@
       "==" :> <<"=", "=">> @@
       ">" :> <<">">> @@
       ">=" :> <<">", "=">> @@
       "@Component" :> <<"@", "C", "o", "m", "p", "o", "n", "e", "n", "t">> @@
       "@Controller" :> <<"@", "C", "o", "n", "t", "r", "o", "l", "l", "e", "r">> @@
       "@Injectable" :> <<"@", "I", "n", "j", "e", "c", "t", "a", "b", "l", "e">> @@
       "@Module" :> <<"@", "M", "o", "d", "u", "l", "e">> @@
       "@NgModule" :> <<"@", "N", "g", "M", "o", "d", "u", "l", "e">> @@
       "@angular/cli" :> <<"@", "a", "n", "g", "u", "l", "a", "r", "/", "c", "l", "i">> @@
       "@angular/core" :> <<"@", "a", "n", "g", "u", "l", "a", "r", "/", "c", "o", "r", "e">> @@
       "@app.get" :> <<"@", "a", "p", "p", ".", "g", "e", "t">> @@
       "@app.route" :> <<"@", "a", "p", "p", ".", "r", "o", "u", "t", "e">> @@
       "@nestjs/common" :> <<"@", "n", "e", "s", "t", "j", "s", "/", "c", "o", "m", "m", "o", "n">> @@
       "@nestjs/core" :> <<"@", "n", "e", "s", "t", "j", "s", "/", "c", "o", "r", "e">> @@
       "@tailwind" :> <<"@", "t", "a", "i", "l", "w", "i", "n", "d">> @@
       "@vue/cli" :> <<"@", "v", "u", "e", "/", "c", "l", "i">> @@
       "API" :> <<"A", "P", "I">> @@
       "App.jsx" :> <<"A", "p", "p", ".", "j", "s", "x">> @@
       "AppRegistry" :> <<"A", "p", "p", "R", "e", "g", "i", "s", "t", "r", "y">> @@
       "BrowserWindow" :> <<"B", "r", "o", "w", "s", "e", "r", "W", "i", "n", "d", "o", "w">> @@
       "CI_Controller" :> <<"C", "I", "_", "C", "o", "n", "t", "r", "o", "l", "l", "e", "r">> @@
       "CLAUDE.md" :> <<"C", "L", "A", "U", "D", "E", ".", "m", "d">> @@
       "Cargo.toml" :> <<"C", "a", "r", "g", "o", ".", "t", "o", "m", "l">> @@
       "Django" :> <<"D", "j", "a", "n", "g", "o">> @@
       "Flask" :> <<"F", "l", "a", "s", "k">> @@
       "INITIAL.md" :> <<"I", "N", "I", "T", "I", "A", "L", ".", "m", "d">> @@
       "INSTALLED_APPS" :> <<"I", "N", "S", "T", "A", "L", "L", "E", "D", "_", "A", "P", "P", "S">> @@
       "Models" :> <<"M", "o", "d", "e", "l", "s">> @@
       "README.md" :> <<"R", "E", "A", "D", "M", "E", ".", "m", "d">> @@
       "StatefulWidget" :> <<"S", "t", "a", "t", "e", "f", "u", "l", "W", "i", "d", "g", "e", "t">> @@
       "StatelessWidget" :> <<"S", "t", "a", "t", "e", "l", "e", "s", "s", "W", "i", "d", "g", "e", "t">> @@
       "[dependencies]" :> <<"[", "d", "e", "p", "e", "n", "d", "e", "n", "c", "i", "e", "s", "]">> @@
       "__tests__" :> <<"_", "_", "t", "e", "s", "t", "s", "_", "_">> @@
       "ai/" :> <<"a", "i", "/">> @@
       "analysis_options.yaml" :> <<"a", "n", "a", "l", "y", "s", "i", "s", "_", "o", "p", "t", "i", "o", "n", "s", ".", "y", "a", "m", "l">> @@
       "android/" :> <<"a", "n", "d", "r", "o", "i", "d", "/">> @@
       "angular.json" :> <<"a", "n", "g", "u", "l", "a", "r", ".", "j", "s", "o", "n">> @@
       "api" :> <<"a", "p", "i">> @@
       "api/" :> <<"a", "p", "i", "/">> @@
       "app" :> <<"a", "p", "p">> @@
       "app = FastAPI" :> <<"a", "p", "p", " ", "=", " ", "F", "a", "s", "t", "A", "P", "I">> @@
       "app = Flask" :> <<"a", "p", "p", " ", "=", " ", "F", "l", "a", "s", "k">> @@
       "app.get" :> <<"a", "p", "p", ".", "g", "e", "t">> @@
       "app.js" :> <<"a", "p", "p", ".", "j", "s">> @@
       "app.post" :> <<"a", "p", "p", ".", "p", "o", "s", "t">> @@
       "app.py" :> <<"a", "p", "p", ".", "p", "y">> @@
       "app.use" :> <<"a", "p", "p", ".", "u", "s", "e">> @@
       "app/" :> <<"a", "p", "p", "/">> @@
       "app/Config/" :> <<"a", "p", "p", "/", "C", "o", "n", "f", "i", "g", "/">> @@
       "artisan" :> <<"a", "r", "t", "i", "s", "a", "n">> @@
       "assets/textures/" :> <<"a", "s", "s", "e", "t", "s", "/", "t", "e", "x", "t", "u", "r", "e", "s", "/">> @@
       "big_file.js" :> <<"b", "i", "g", "_", "f", "i", "l", "e", ".", "j", "s">> @@
       "bin/console" :> <<"b", "i", "n", "/", "c", "o", "n", "s", "o", "l", "e">> @@
       "bootstrap" :> <<"b", "o", "o", "t", "s", "t", "r", "a", "p">> @@
       "ci.py" :> <<"c", "i", ".", "p", "y">> @@
       "class.*btn" :> <<"c", "l", "a", "s", "s", ".", "*", "b", "t", "n">> @@
       "class.*extends.*Controller" :> <<"c", "l", "a", "s", "s", ".", "*", "e", "x", "t", "e", "n", "d", "s", ".", "*", "C", "o", "n", "t", "r", "o", "l", "l", "e", "r">> @@
       "codeigniter4/framework" :> <<"c", "o", "d", "e", "i", "g", "n", "i", "t", "e", "r", "4", "/", "f", "r", "a", "m", "e", "w", "o", "r", "k">> @@
       "components" :> <<"c", "o", "m", "p", "o", "n", "e", "n", "t", "s">> @@
       "composer.json" :> <<"c", "o", "m", "p", "o", "s", "e", "r", ".", "j", "s", "o", "n">> @@
       "conf" :> <<"c", "o", "n", "f">> @@
       "config" :> <<"c", "o", "n", "f", "i", "g">> @@
       "config.json" :> <<"c", "o", "n", "f", "i", "g", ".", "j", "s", "o", "n">> @@
       "config/" :> <<"c", "o", "n", "f", "i", "g", "/">> @@
       "config/app.php" :> <<"c", "o", "n", "f", "i", "g", "/", "a", "p", "p", ".", "p", "h", "p">> @@
       "config/services.yaml" :> <<"c", "o", "n", "f", "i", "g", "/", "s", "e", "r", "v", "i", "c", "e", "s", ".", "y", "a", "m", "l">> @@
       "console.js" :> <<"c", "o", "n", "s", "o", "l", "e", ".", "j", "s">> @@
       "contracts/" :> <<"c", "o", "n", "t", "r", "a", "c", "t", "s", "/">> @@
       "controller" :> <<"c", "o", "n", "t", "r", "o", "l", "l", "e", "r">> @@
       "controllers" :> <<"c", "o", "n", "t", "r", "o", "l", "l", "e", "r", "s">> @@
       "controllers/" :> <<"c", "o", "n", "t", "r", "o", "l", "l", "e", "r", "s", "/">> @@
       "craco.config.js" :> <<"c", "r", "a", "c", "o", ".", "c", "o", "n", "f", "i", "g", ".", "j", "s">> @@
       "ctx.body" :> <<"c", "t", "x", ".", "b", "o", "d", "y">> @@
       "data" :> <<"d", "a", "t", "a">> @@
       "data/" :> <<"d", "a", "t", "a", "/">> @@
       "datasets" :> <<"d", "a", "t", "a", "s", "e", "t", "s">> @@
       "datasets/" :> <<"d", "a", "t", "a", "s", "e", "t", "s", "/">> @@
       "defineConfig" :> <<"d", "e", "f", "i", "n", "e", "C", "o", "n", "f", "i", "g">> @@
       "docker-compose.yml" :> <<"d", "o", "c", "k", "e", "r", "-", "c", "o", "m", "p", "o", "s", "e", ".", "y", "m", "l">> @@
       "docs" :> <<"d", "o", "c", "s">> @@
       "docs/" :> <<"d", "o", "c", "s", "/">> @@
       "docusaurus.config.js" :> <<"d", "o", "c", "u", "s", "a", "u", "r", "u", "s", ".", "c", "o", "n", "f", "i", "g", ".", "j", "s">> @@
       "editor.font.size" :> <<"e", "d", "i", "t", "o", "r", ".", "f", "o", "n", "t", ".", "s", "i", "z", "e">> @@
       "electron" :> <<"e", "l", "e", "c", "t", "r", "o", "n">> @@
       "electron/" :> <<"e", "l", "e", "c", "t", "r", "o", "n", "/">> @@
       "entry:" :> <<"e", "n", "t", "r", "y", ":">> @@
       "examples" :> <<"e", "x", "a", "m", "p", "l", "e", "s">> @@
       "export default" :> <<"e", "x", "p", "o", "r", "t", " ", "d", "e", "f", "a", "u", "l", "t">> @@
       "express" :> <<"e", "x", "p", "r", "e", "s", "s">> @@
       "fastapi" :> <<"f", "a", "s", "t", "a", "p", "i">> @@
       "fastify" :> <<"f", "a", "s", "t", "i", "f", "y">> @@
       "fastify.get" :> <<"f", "a", "s", "t", "i", "f", "y", ".", "g", "e", "t">> @@
       "fastify.post" :> <<"f", "a", "s", "t", "i", "f", "y", ".", "p", "o", "s", "t">> @@
       "fastify.register" :> <<"f", "a", "s", "t", "i", "f", "y", ".", "r", "e", "g", "i", "s", "t", "e", "r">> @@
       "favorite_languages" :> <<"f", "a", "v", "o", "r", "i", "t", "e", "_", "l", "a", "n", "g", "u", "a", "g", "e", "s">> @@
       "features" :> <<"f", "e", "a", "t", "u", "r", "e", "s">> @@
       "flutter" :> <<"f", "l", "u", "t", "t", "e", "r">> @@
       "flutter/" :> <<"f", "l", "u", "t", "t", "e", "r", "/">> @@
       "from django" :> <<"f", "r", "o", "m", " ", "d", "j", "a", "n", "g", "o">> @@
       "from fastapi" :> <<"f", "r", "o", "m", " ", "f", "a", "s", "t", "a", "p", "i">> @@
       "from flask" :> <<"f", "r", "o", "m", " ", "f", "l", "a", "s", "k">> @@
       "getServerSideProps" :> <<"g", "e", "t", "S", "e", "r", "v", "e", "r", "S", "i", "d", "e", "P", "r", "o", "p", "s">> @@
       "godot/" :> <<"g", "o", "d", "o", "t", "/">> @@
       "hardhat.config.js" :> <<"h", "a", "r", "d", "h", "a", "t", ".", "c", "o", "n", "f", "i", "g", ".", "j", "s">> @@
       "import django" :> <<"i", "m", "p", "o", "r", "t", " ", "d", "j", "a", "n", "g", "o">> @@
       "import tornado" :> <<"i", "m", "p", "o", "r", "t", " ", "t", "o", "r", "n", "a", "d", "o">> @@
       "import.*bootstrap" :> <<"i", "m", "p", "o", "r", "t", ".", "*", "b", "o", "o", "t", "s", "t", "r", "a", "p">> @@
       "import.*flutter" :> <<"i", "m", "p", "o", "r", "t", ".", "*", "f", "l", "u", "t", "t", "e", "r">> @@
       "import.*from.*react" :> <<"i", "m", "p", "o", "r", "t", ".", "*", "f", "r", "o", "m", ".", "*", "r", "e", "a", "c", "t">> @@
       "import.*react-native" :> <<"i", "m", "p", "o", "r", "t", ".", "*", "r", "e", "a", "c", "t", "-", "n", "a", "t", "i", "v", "e">> @@
       "import.meta.env" :> <<"i", "m", "p", "o", "r", "t", ".", "m", "e", "t", "a", ".", "e", "n", "v">> @@
       "index.html" :> <<"i", "n", "d", "e", "x", ".", "h", "t", "m", "l">> @@
       "index.js" :> <<"i", "n", "d", "e", "x", ".", "j", "s">> @@
       "input:" :> <<"i", "n", "p", "u", "t", ":">> @@
       "interface" :> <<"i", "n", "t", "e", "r", "f", "a", "c", "e">> @@
       "interface.theme" :> <<"i", "n", "t", "e", "r", "f", "a", "c", "e", ".", "t", "h", "e", "m", "e">> @@
       "interface.theme.color" :> <<"i", "n", "t", "e", "r", "f", "a", "c", "e", ".", "t", "h", "e", "m", "e", ".", "c", "o", "l", "o", "r">> @@
       "ios/" :> <<"i", "o", "s", "/">> @@
       "jsx" :> <<"j", "s", "x">> @@
       "koa" :> <<"k", "o", "a">> @@
       "kubernetes" :> <<"k", "u", "b", "e", "r", "n", "e", "t", "e", "s">> @@
       "kubernetes/" :> <<"k", "u", "b", "e", "r", "n", "e", "t", "e", "s", "/">> @@
       "laravel/framework" :> <<"l", "a", "r", "a", "v", "e", "l", "/", "f", "r", "a", "m", "e", "w", "o", "r", "k">> @@
       "last_updated" :> <<"l", "a", "s", "t", "_", "u", "p", "d", "a", "t", "e", "d">> @@
       "layouts/" :> <<"l", "a", "y", "o", "u", "t", "s", "/">> @@
       "lib" :> <<"l", "i", "b">> @@
       "lib/" :> <<"l", "i", "b", "/">> @@
       "main.js" :> <<"m", "a", "i", "n", ".", "j", "s">> @@
       "main.py" :> <<"m", "a", "i", "n", ".", "p", "y">> @@
       "main.ts" :> <<"m", "a", "i", "n", ".", "t", "s">> @@
       "manage.py" :> <<"m", "a", "n", "a", "g", "e", ".", "p", "y">> @@
       "metro.config.js" :> <<"m", "e", "t", "r", "o", ".", "c", "o", "n", "f", "i", "g", ".", "j", "s">> @@
       "microservices" :> <<"m", "i", "c", "r", "o", "s", "e", "r", "v", "i", "c", "e", "s">> @@
       "microservices/" :> <<"m", "i", "c", "r", "o", "s", "e", "r", "v", "i", "c", "e", "s", "/">> @@
       "mkdocs.yml" :> <<"m", "k", "d", "o", "c", "s", ".", "y", "m", "l">> @@
       "ml/" :> <<"m", "l", "/">> @@
       "models" :> <<"m", "o", "d", "e", "l", "s">> @@
       "models/" :> <<"m", "o", "d", "e", "l", "s", "/">> @@
       "module.exports" :> <<"m", "o", "d", "u", "l", "e", ".", "e", "x", "p", "o", "r", "t", "s">> @@
       "modules" :> <<"m", "o", "d", "u", "l", "e", "s">> @@
       "namespace App" :> <<"n", "a", "m", "e", "s", "p", "a", "c", "e", " ", "A", "p", "p">> @@
       "nest-cli.json" :> <<"n", "e", "s", "t", "-", "c", "l", "i", ".", "j", "s", "o", "n">> @@
       "next" :> <<"n", "e", "x", "t">> @@
       "next.config.js" :> <<"n", "e", "x", "t", ".", "c", "o", "n", "f", "i", "g", ".", "j", "s">> @@
       "node_modules" :> <<"n", "o", "d", "e", "_", "m", "o", "d", "u", "l", "e", "s">> @@
       "notebooks/" :> <<"n", "o", "t", "e", "b", "o", "o", "k", "s", "/">> @@
       "nuxt" :> <<"n", "u", "x", "t">> @@
       "nuxt.config.js" :> <<"n", "u", "x", "t", ".", "c", "o", "n", "f", "i", "g", ".", "j", "s">> @@
       "output:" :> <<"o", "u", "t", "p", "u", "t", ":">> @@
       "package.json" :> <<"p", "a", "c", "k", "a", "g", "e", ".", "j", "s", "o", "n">> @@
       "pages/" :> <<"p", "a", "g", "e", "s", "/">> @@
       "plugins/" :> <<"p", "l", "u", "g", "i", "n", "s", "/">> @@
       "preload.js" :> <<"p", "r", "e", "l", "o", "a", "d", ".", "j", "s">> @@
       "programming" :> <<"p", "r", "o", "g", "r", "a", "m", "m", "i", "n", "g">> @@
       "pubspec.yaml" :> <<"p", "u", "b", "s", "p", "e", "c", ".", "y", "a", "m", "l">> @@
       "pyproject.toml" :> <<"p", "y", "p", "r", "o", "j", "e", "c", "t", ".", "t", "o", "m", "l">> @@
       "react" :> <<"r", "e", "a", "c", "t">> @@
       "react-dom" :> <<"r", "e", "a", "c", "t", "-", "d", "o", "m">> @@
       "react-native" :> <<"r", "e", "a", "c", "t", "-", "n", "a", "t", "i", "v", "e">> @@
       "react-native/" :> <<"r", "e", "a", "c", "t", "-", "n", "a", "t", "i", "v", "e", "/">> @@
       "repository" :> <<"r", "e", "p", "o", "s", "i", "t", "o", "r", "y">> @@
       "require.*electron" :> <<"r", "e", "q", "u", "i", "r", "e", ".", "*", "e", "l", "e", "c", "t", "r", "o", "n">> @@
       "require.*express" :> <<"r", "e", "q", "u", "i", "r", "e", ".", "*", "e", "x", "p", "r", "e", "s", "s">> @@
       "require.*koa" :> <<"r", "e", "q", "u", "i", "r", "e", ".", "*", "k", "o", "a">> @@
       "requirements.txt" :> <<"r", "e", "q", "u", "i", "r", "e", "m", "e", "n", "t", "s", ".", "t", "x", "t">> @@
       "rollup" :> <<"r", "o", "l", "l", "u", "p">> @@
       "rollup.config.js" :> <<"r", "o", "l", "l", "u", "p", ".", "c", "o", "n", "f", "i", "g", ".", "j", "s">> @@
       "routes/" :> <<"r", "o", "u", "t", "e", "s", "/">> @@
       "routes/web.php" :> <<"r", "o", "u", "t", "e", "s", "/", "w", "e", "b", ".", "p", "h", "p">> @@
       "run.py" :> <<"r", "u", "n", ".", "p", "y">> @@
       "scripts/" :> <<"s", "c", "r", "i", "p", "t", "s", "/">> @@
       "server.js" :> <<"s", "e", "r", "v", "e", "r", ".", "j", "s">> @@
       "service" :> <<"s", "e", "r", "v", "i", "c", "e">> @@
       "services" :> <<"s", "e", "r", "v", "i", "c", "e", "s">> @@
       "settings" :> <<"s", "e", "t", "t", "i", "n", "g", "s">> @@
       "settings.py" :> <<"s", "e", "t", "t", "i", "n", "g", "s", ".", "p", "y">> @@
       "setup.py" :> <<"s", "e", "t", "u", "p", ".", "p", "y">> @@
       "show_welcome_message" :> <<"s", "h", "o", "w", "_", "w", "e", "l", "c", "o", "m", "e", "_", "m", "e", "s", "s", "a", "g", "e">> @@
       "simple structure" :> <<"s", "i", "m", "p", "l", "e", " ", "s", "t", "r", "u", "c", "t", "u", "r", "e">> @@
       "single file" :> <<"s", "i", "n", "g", "l", "e", " ", "f", "i", "l", "e">> @@
       "spec" :> <<"s", "p", "e", "c">> @@
       "src" :> <<"s", "r", "c">> @@
       "src/game/" :> <<"s", "r", "c", "/", "g", "a", "m", "e", "/">> @@
       "src/lib/" :> <<"s", "r", "c", "/", "l", "i", "b", "/">> @@
       "svelte" :> <<"s", "v", "e", "l", "t", "e">> @@
       "svelte.config.js" :> <<"s", "v", "e", "l", "t", "e", ".", "c", "o", "n", "f", "i", "g", ".", "j", "s">> @@
       "symfony/framework-bundle" :> <<"s", "y", "m", "f", "o", "n", "y", "/", "f", "r", "a", "m", "e", "w", "o", "r", "k", "-", "b", "u", "n", "d", "l", "e">> @@
       "system/" :> <<"s", "y", "s", "t", "e", "m", "/">> @@
       "tailwind.config" :> <<"t", "a", "i", "l", "w", "i", "n", "d", ".", "c", "o", "n", "f", "i", "g">> @@
       "tailwind.config.js" :> <<"t", "a", "i", "l", "w", "i", "n", "d", ".", "c", "o", "n", "f", "i", "g", ".", "j", "s">> @@
       "tailwindcss" :> <<"t", "a", "i", "l", "w", "i", "n", "d", "c", "s", "s">> @@
       "tauri" :> <<"t", "a", "u", "r", "i">> @@
       "tauri.conf.json" :> <<"t", "a", "u", "r", "i", ".", "c", "o", "n", "f", ".", "j", "s", "o", "n">> @@
       "tauri::" :> <<"t", "a", "u", "r", "i", ":", ":">> @@
       "terraform/" :> <<"t", "e", "r", "r", "a", "f", "o", "r", "m", "/">> @@
       "test" :> <<"t", "e", "s", "t">> @@
       "tests" :> <<"t", "e", "s", "t", "s">> @@
       "tests/" :> <<"t", "e", "s", "t", "s", "/">> @@
       "theme" :> <<"t", "h", "e", "m", "e">> @@
       "tornado" :> <<"t", "o", "r", "n", "a", "d", "o">> @@
       "tornado.web" :> <<"t", "o", "r", "n", "a", "d", "o", ".", "w", "e", "b">> @@
       "training/" :> <<"t", "r", "a", "i", "n", "i", "n", "g", "/">> @@
       "truffle-config.js" :> <<"t", "r", "u", "f", "f", "l", "e", "-", "c", "o", "n", "f", "i", "g", ".", "j", "s">> @@
       "tsconfig.json" :> <<"t", "s", "c", "o", "n", "f", "i", "g", ".", "j", "s", "o", "n">> @@
       "tsx" :> <<"t", "s", "x">> @@
       "unity/" :> <<"u", "n", "i", "t", "y", "/">> @@
       "urls.py" :> <<"u", "r", "l", "s", ".", "p", "y">> @@
       "use Illuminate" :> <<"u", "s", "e", " ", "I", "l", "l", "u", "m", "i", "n", "a", "t", "e">> @@
       "use Symfony" :> <<"u", "s", "e", " ", "S", "y", "m", "f", "o", "n", "y">> @@
       "user_controller" :> <<"u", "s", "e", "r", "_", "c", "o", "n", "t", "r", "o", "l", "l", "e", "r">> @@
       "user_repository" :> <<"u", "s", "e", "r", "_", "r", "e", "p", "o", "s", "i", "t", "o", "r", "y">> @@
       "user_service" :> <<"u", "s", "e", "r", "_", "s", "e", "r", "v", "i", "c", "e">> @@
       "version" :> <<"v", "e", "r", "s", "i", "o", "n">> @@
       "views" :> <<"v", "i", "e", "w", "s">> @@
       "vite" :> <<"v", "i", "t", "e">> @@
       "vite.config.js" :> <<"v", "i", "t", "e", ".", "c", "o", "n", "f", "i", "g", ".", "j", "s">> @@
       "vite.config.ts" :> <<"v", "i", "t", "e", ".", "c", "o", "n", "f", "i", "g", ".", "t", "s">> @@
       "vue" :> <<"v", "u", "e">> @@
       "vue.config.js" :> <<"v", "u", "e", ".", "c", "o", "n", "f", "i", "g", ".", "j", "s">> @@
       "webpack" :> <<"w", "e", "b", "p", "a", "c", "k">> @@
       "webpack.config.js" :> <<"w", "e", "b", "p", "a", "c", "k", ".", "c", "o", "n", "f", "i", "g", ".", "j", "s">> @@
       "wsgi.py" :> <<"w", "s", "g", "i", ".", "p", "y">> @@
       "~=" :> <<"~", "=">> )

(***************************************************************************)
(* Python str operations, on character sequences.                          *)
(***************************************************************************)
\* the lower-case form of the upper-case letters
LowerCaseOf ==
    ( "A" :> "a" @@ "B" :> "b" @@ "C" :> "c" @@ "D" :> "d" @@ "E" :> "e" @@ "F" :> "f" @@
      "G" :> "g" @@ "H" :> "h" @@ "I" :> "i" @@ "J" :> "j" @@ "K" :> "k" @@ "L" :> "l" @@
      "M" :> "m" @@ "N" :> "n" @@ "O" :> "o" @@ "P" :> "p" @@ "Q" :> "q" @@ "R" :> "r" @@
      "S" :> "s" @@ "T" :> "t" @@ "U" :> "u" @@ "V" :> "v" @@ "W" :> "w" @@ "X" :> "x" @@
      "Y" :> "y" @@ "Z" :> "z" )

\* str.lower() of one character
LowerChar(c) ==
    IF c \in DOMAIN LowerCaseOf THEN LowerCaseOf[c] ELSE c

\* str.lower()
RECURSIVE lower(_)
lower(cs) ==
    IF cs = <<>> THEN <<>> ELSE <<LowerChar(Head(cs))>> \o lower(Tail(cs))

\* needle in hay
Contains(hay, needle) ==
    \E i \in 0..(Len(hay) - Len(needle)) :
        \A j \in 1..Len(needle) : hay[i + j] = needle[j]

\* str.endswith(c), str.startswith(c) for a single character c
endswith(cs, c) ==
    Len(cs) > 0 /\ cs[Len(cs)] = c
startswith(cs, c) ==
    Len(cs) > 0 /\ cs[1] = c

\* str.rstrip(c)
RECURSIVE rstrip(_, _)
rstrip(cs, c) ==
    IF endswith(cs, c) THEN rstrip(SubSeq(cs, 1, Len(cs) - 1), c) ELSE cs

\* str.strip(): leading and trailing blanks removed
RECURSIVE strip(_)
strip(cs) ==
    IF startswith(cs, " ") THEN strip(Tail(cs))
    ELSE IF endswith(cs, " ") THEN strip(SubSeq(cs, 1, Len(cs) - 1))
    ELSE cs

\* str.replace(c, by) for a single character c
RECURSIVE replace(_, _, _)
replace(cs, c, by) ==
    IF cs = <<>> THEN <<>>
    ELSE (IF Head(cs) = c THEN by ELSE <<Head(cs)>>) \o replace(Tail(cs), c, by)

\* sep.join(parts)
RECURSIVE join(_, _)
join(parts, sep) ==
    IF parts = <<>> THEN <<>>
    ELSE IF Len(parts) = 1 THEN parts[1]
    ELSE parts[1] \o sep \o join(Tail(parts), sep)

\* the prefix of cs before the first character that is in stops (all of cs if none)
RECURSIVE UpTo(_, _)
UpTo(cs, stops) ==
    IF cs = <<>> \/ Head(cs) \in stops THEN <<>>
    ELSE <<Head(cs)>> \o UpTo(Tail(cs), stops)

\* the components of a path string: split on "/", empty components dropped
\* (pathlib joins project_path / "a/b/" to the path with parts a, b)
RECURSIVE PathParts(_)
PathParts(cs) ==
    IF cs = <<>> THEN <<>>
    ELSE IF Head(cs) = "/" THEN PathParts(Tail(cs))
    ELSE LET part == UpTo(cs, {"/"})
         IN  <<part>> \o PathParts(SubSeq(cs, Len(part) + 1, Len(cs)))

\* the string of the table that has these characters
RECURSIVE split(_, _)
\* cs.split(c): the pieces between the occurrences of c, empty ones included
split(cs, c) ==
    IF \A i \in 1..Len(cs) : cs[i] # c THEN <<cs>>
    ELSE LET i == CHOOSE j \in 1..Len(cs) :
                      cs[j] = c /\ \A k \in 1..(j - 1) : cs[k] # c
         IN  <<SubSeq(cs, 1, i - 1)>> \o split(SubSeq(cs, i + 1, Len(cs)), c)

StrOf(cs) ==
    CHOOSE s \in DOMAIN Chars : Chars[s] = cs

\* PurePath.suffix: from the last "." of the name, unless the name starts or
\* ends with it
suffix(name) ==
    LET dots == {i \in 1..Len(name) : name[i] = "."}
        i == IF dots = {} THEN 0 ELSE CHOOSE k \in dots : \A m \in dots : m <= k
    IN  IF 1 < i /\ i < Len(name) THEN SubSeq(name, i, Len(name)) ELSE <<>>

\* re.match(pattern, s) for patterns made of literal characters, "." and ".*"
RECURSIVE re_match(_, _)
re_match(p, s) ==
    IF p = <<>> THEN TRUE
    ELSE IF Len(p) >= 2 /\ p[2] = "*"
         THEN \/ re_match(SubSeq(p, 3, Len(p)), s)
              \/ /\ s # <<>>
                 /\ (p[1] = "." \/ p[1] = s[1])
                 /\ re_match(p, Tail(s))
         ELSE /\ s # <<>>
              /\ (p[1] = "." \/ p[1] = s[1])
              /\ re_match(Tail(p), Tail(s))

(***************************************************************************)
(* The project tree.  Paths are relative to project_path and written as    *)
(* the sequence of their components.                                       *)
(***************************************************************************)
\* the directory handed to analyze_project
project_path ==
    "/home/dev/app"

\* a library of nested directories holding 21 files, and the directory that
\* makes it four levels deep
BulkDirs ==
    { <<"lib">>, <<"lib", "lib">>, <<"lib", "lib", "lib">> }
BulkFiles ==
    { d \o <<n>> : d \in BulkDirs,
                   n \in {"index.html", "README.md", "App.jsx", "ci.py", "big_file.js",
                          "docker-compose.yml", "requirements.txt"} }
DeepDir ==
    <<"lib", "lib", "lib", "lib">>

\* what setup_project creates in a project
SetupFiles ==
    { <<"CLAUDE.md">>, <<"INITIAL.md">>, <<".context-engineer", "config.json">> }
SetupDirs ==
    { <<".context-engineer">>, <<".claude">>, <<".claude", "examples">> }

\* the files and directories a project may hold
Files ==
    { <<"index.html">>, <<"package.json">>, <<"CLAUDE.md">>, <<"README.md">>,
      <<"node_modules", "big_file.js">>, <<"src", "App.jsx">>,
      <<"docker-compose.yml">>, <<"composer.json">>,
      <<".eslintrc.js">>, <<".github", "ci.py">>, <<"requirements.txt">> } \cup BulkFiles \cup SetupFiles
Dirs ==
    { <<"node_modules">>, <<"src">>, <<"API">>, <<"lib">>, <<"datasets">>,
      <<".github">>, <<"microservices">>, <<"kubernetes">>, <<"tests">>, <<"docs">> }
    \cup BulkDirs \cup {DeepDir} \cup SetupDirs
Universe ==
    Files \cup Dirs

\* the entries of the projects every call sequence is explored on
Core ==
    { <<"index.html">>, <<"package.json">>, <<"CLAUDE.md">>, <<"README.md">>,
      <<"node_modules", "big_file.js">>, <<"src", "App.jsx">>,
      <<"node_modules">>, <<"src">>, <<"API">>, <<"lib">> }

\* the entries whose permission bits may deny reading (a file) or listing (a directory)
MayBeUnreadable ==
    { <<"CLAUDE.md">>, <<"src">> }

\* the catalog patterns that, compiled as regular expressions, re.search finds
\* in a file's text
RegexMatches(p) ==
    IF p = <<"src", "App.jsx">> THEN {"import.*from.*react", "export default"}
    ELSE IF p = <<"node_modules", "big_file.js">> THEN {"require.*express"}
    ELSE {}

\* stat().st_size, in bytes
st_size(p) ==
    IF p = <<"node_modules", "big_file.js">> THEN 20000 ELSE 64

\* what json.load makes of a manifest: valid is FALSE when it raises JSONDecodeError
Malformed ==
    [valid |-> FALSE, has_name |-> FALSE, name |-> "", deps |-> {}, dev_deps |-> {}]
JsonContents ==
    { Malformed,
      [valid |-> TRUE, has_name |-> TRUE, name |-> "shop", deps |-> {"react"}, dev_deps |-> {}],
      [valid |-> TRUE, has_name |-> FALSE, name |-> "", deps |-> {"express"},
       dev_deps |-> {"vite"}] }

\* the version specifiers of a requirements.txt line
VersionSpecifiers ==
    {"==", ">=", "<=", "!=", "~=", "<", ">"}

\* one-line contents of a requirements.txt: a package of the catalog, a version
\* specifier and a version, written with or without spaces around the specifier
RequirementsContents ==
    { << Chars[package] \o space \o Chars[specifier] \o space \o Chars["1.0"] >> :
        package \in {"Django", "Flask", "fastapi", "tornado"},
        specifier \in VersionSpecifiers,
        space \in {<<>>, <<" ">>} }

\* len(claude_content) of a CLAUDE.md on either side of the 100-character test
ClaudeLengths ==
    {99, 100}

Parent(p) ==
    SubSeq(p, 1, Len(p) - 1)

\* a set of paths is a tree when every entry's parent directory is in it
IsTree(t) ==
    \A p \in t : Len(p) > 1 => Parent(p) \in t /\ Parent(p) \in Dirs

\* entries of the largest project tree analysed
MaxEntries ==
    4

\* the project trees
Trees ==
    {t \in SUBSET Core : IsTree(t) /\ Cardinality(t) <= MaxEntries}

\* the permutations of a finite set, as sequences
Orders(S) ==
    {s \in [1..Cardinality(S) -> S] : \A i, j \in 1..Cardinality(S) : s[i] = s[j] => i = j}

VARIABLES
    \* the file system under project_path
    path_exists,     \* project_path.exists()
    path_readable,   \* os.access(project_path, os.R_OK)
    tree,            \* the paths present
    json_files,      \* manifest name -> parsed content (package.json, composer.json)
    text_files,      \* manifest name -> lines of characters (requirements.txt, Cargo.toml)
    claude_md,       \* length of the text of CLAUDE.md (0 when absent)
    unreadable,      \* the paths whose permissions deny reading / listing
    debug_log,       \* crash entries appended to /tmp/aigenio_debug.log
    \* one call of analyze_project
    pc,              \* the step the call is at
    calls,           \* calls started so far
    ran,             \* the analysis steps the current call has run
    structure, framework_info, languages, ce_analysis, score,
    result,          \* the value returned
    error,           \* the exception raised to the caller
    last,            \* outcome of the previous call
    scanned,         \* the tree as the current call found it
    \* the MCP response cache of a MemoryManager
    mcp_responses,   \* self.cache['mcp_responses'], in dictionary order
    now,             \* what datetime.now() reads
    cached,          \* outcome of the last cache operation
    \* the preferences of a PreferencesManager
    preferences,     \* self.preferences
    preferences_file,\* what preferences.json holds
    pref,            \* outcome of the last preference operation
    \* setup_project and the projects database of a ContextEngineerAgent
    setup,           \* the call of setup_project: its position, the steps run, its result
    projects_db,     \* self.projects_db['projects']: the registered projects
    projects_file,   \* the projects ~/.context-engineer/projects.json holds
    \* auto_backup_session of AutoBackup
    repo,            \* the Git repository at project_path, as GitPython finds it
    backup           \* the call of auto_backup_session: its position, the Git operations made, its result

fsvars ==
    <<path_exists, path_readable, tree, json_files, text_files, claude_md, unreadable>>
callvars ==
    <<pc, calls, ran, structure, framework_info, languages, ce_analysis, score,
      result, error, last, scanned, debug_log>>
cachevars ==
    <<mcp_responses, now, cached>>
prefvars ==
    <<preferences, preferences_file, pref>>
setupvars ==
    <<setup, projects_db, projects_file>>
backupvars ==
    <<repo, backup>>
storevars ==
    <<cachevars, prefvars, setupvars, backupvars>>
vars ==
    <<fsvars, callvars, storevars>>

\* value of cached before any cache operation
NoOutcome == [op |-> "none", ops |-> 0]

\* a MemoryManager that found no cache file; no operation made on it
CacheIdle ==
    /\ mcp_responses = <<>>
    /\ now = 0
    /\ cached = NoOutcome

\* no PreferencesManager has been constructed
NoPreferences == [none |-> "preferences"]
PrefsIdle ==
    /\ preferences = NoPreferences
    /\ preferences_file = NoPreferences
    /\ pref = NoOutcome

\* a ContextEngineerAgent that found no projects.json; setup_project not called
NoSetup ==
    [ pc |-> "idle", setups |-> 0, steps |-> <<>>, analysis |-> [none |-> "analysis"],
      validation |-> [none |-> "validation"], result |-> [status |-> "none"] ]
SetupIdle ==
    /\ setup = NoSetup
    /\ projects_db = {}
    /\ projects_file = {}

\* no repository looked at; auto_backup_session not called
NoRepo == [none |-> "repo"]
NoBackup ==
    [ pc |-> "idle", backups |-> 0, events |-> <<>>, status |-> [none |-> "status"],
      result |-> [status |-> "none"] ]
BackupIdle ==
    /\ repo = NoRepo
    /\ backup = NoBackup

\* the stores as the analysis leaves them: it uses none of them
StoresIdle ==
    CacheIdle /\ PrefsIdle /\ SetupIdle /\ BackupIdle

\* calls of analyze_project made on the same tree
MaxCalls ==
    2

(***************************************************************************)
(* pathlib over the tree                                                   *)
(***************************************************************************)
\* project_path.glob('*'): the entries of project_path itself only
glob ==
    {p \in tree : Len(p) = 1}

\* project_path.rglob('*'): every entry below project_path; the entries of a
\* directory that cannot be listed are not produced
rglob ==
    {p \in tree : \A i \in 1..(Len(p) - 1) : SubSeq(p, 1, i) \notin unreadable}

is_file(p) ==
    p \in tree /\ p \in Files
is_dir(p) ==
    p \in tree /\ p \in Dirs

\* path.name
name(p) ==
    Chars[p[Len(p)]]

\* path.parts below project_path, str(path.relative_to(project_path)), str(path)
RECURSIVE parts_of(_)
parts_of(p) ==
    IF p = <<>> THEN <<>> ELSE <<Chars[Head(p)]>> \o parts_of(Tail(p))
rel_str(p) ==
    join(parts_of(p), <<"/">>)
full_str(p) ==
    Chars[project_path] \o <<"/">> \o rel_str(p)

\* the components of every string of the table read as a path, and of every
\* entry of the universe
path_parts ==
    [s \in DOMAIN Chars |-> PathParts(Chars[s])]
entry_parts ==
    [p \in Universe |-> parts_of(p)]

\* (project_path / s).exists()
exists(s) ==
    path_parts[s] = <<>> \/ \E p \in tree : entry_parts[p] = path_parts[s]

\* len(list(item.iterdir()))
iterdir_count(p) ==
    Cardinality({c \in tree : Len(c) = Len(p) + 1 /\ Parent(c) = p})

\* sum of f[x] over the finite set S
RECURSIVE SumOver(_, _)
SumOver(f, S) ==
    IF S = {} THEN 0
    ELSE LET x == CHOOSE y \in S : TRUE IN f[x] + SumOver(f, S \ {x})

\* the concatenation of a sequence of sequences
RECURSIVE Flatten(_)
Flatten(ss) ==
    IF ss = <<>> THEN <<>> ELSE Head(ss) \o Flatten(Tail(ss))

\* sorted(items, key=..., reverse=True), keys[i] being the key of items[i]: a
\* stable sort, so an item goes after every item with a larger key and after
\* the earlier items with an equal key
sorted_reverse(items, keys) ==
    LET n == Len(items)
        rank(i) ==
            1 + Cardinality({j \in 1..n : keys[j] > keys[i]})
              + Cardinality({j \in 1..(i - 1) : keys[j] = keys[i]})
    IN  [pos \in 1..n |-> items[CHOOSE i \in 1..n : rank(i) = pos]]

(***************************************************************************)
(* src/src/utils.py                                                        *)
(***************************************************************************)
\* get_file_extension: path.suffix.lower()
get_file_extension(p) ==
    StrOf(lower(suffix(name(p))))

\* calculate_file_stats: every file and directory rglob produces is counted
calculate_file_stats ==
    LET files == {p \in rglob : is_file(p)}
        exts == {get_file_extension(p) : p \in files}
    IN  [ total_files |-> Cardinality(files),
          directories |-> Cardinality({p \in rglob : ~is_file(p) /\ is_dir(p)}),
          extensions |->
              [e \in exts |-> Cardinality({p \in files : get_file_extension(p) = e})] ]

\* load_json raises when the file cannot be opened or is not JSON
load_json_raises(m) ==
    /\ exists(m)
    /\ \/ <<m>> \in unreadable
       \/ ~json_files[m].valid

\* get_project_name: the error it raises, or "none"
get_project_name_error ==
    IF exists("package.json") /\ load_json_raises("package.json")
    THEN IF <<"package.json">> \in unreadable THEN "PermissionError" ELSE "JSONDecodeError"
    ELSE IF exists("package.json") /\ json_files["package.json"].has_name
    THEN "none"
    ELSE IF exists("composer.json") /\ load_json_raises("composer.json")
    THEN IF <<"composer.json">> \in unreadable THEN "PermissionError" ELSE "JSONDecodeError"
    ELSE "none"

\* get_project_name: the name it returns when it raises nothing
get_project_name ==
    IF exists("package.json") /\ json_files["package.json"].has_name
    THEN json_files["package.json"].name
    ELSE IF exists("composer.json") /\ json_files["composer.json"].has_name
    THEN json_files["composer.json"].name
    ELSE LET parts == PathParts(Chars[project_path]) IN StrOf(parts[Len(parts)])

(***************************************************************************)
(* src/src/analyzers/project_analyzer.py                                   *)
(***************************************************************************)
_is_ignored_dir(p) ==
    p[Len(p)] \in ignored_dirs

_is_ignored_file(p) ==
    \/ startswith(name(p), ".")
    \/ get_file_extension(p) \in {".pyc", ".pyo", ".log", ".tmp", ".temp"}

\* the directories _analyze_directories looks at
analyzed_dirs ==
    {p \in rglob : is_dir(p) /\ ~_is_ignored_dir(p)}

\* some word of words occurs in str(rel_path).lower()
path_has_word(p, words) ==
    \E w \in words : Contains(lower(rel_str(p)), Chars[w])

\* the directories whose entries _analyze_directories counts with iterdir()
listed_dirs ==
    {p \in analyzed_dirs :
        path_has_word(p, {"src", "test", "spec", "__tests__", "config", "conf", "settings"})}

\* _analyze_directories raises when iterdir() is refused
_analyze_directories_raises ==
    \E p \in listed_dirs : p \in unreadable

\* _analyze_directories, with the root directories in the order rglob produced them
_analyze_directories(root_order) ==
    LET structure_of(words) ==
            LET hit == {p \in analyzed_dirs : path_has_word(p, words)}
            IN  [p \in hit |-> iterdir_count(p)]
        depths == {Len(p) : p \in analyzed_dirs}
    IN  [ root_dirs |-> [i \in 1..Len(root_order) |-> root_order[i][1]],
          src_structure |-> structure_of({"src"}),
          test_structure |-> structure_of({"test", "spec", "__tests__"}),
          config_structure |-> structure_of({"config", "conf", "settings"}),
          depth |-> IF depths = {} THEN 0
                    ELSE CHOOSE d \in depths : \A e \in depths : e <= d ]

\* the orders in which rglob may produce the root directories
root_orders ==
    Orders({p \in analyzed_dirs : Len(p) = 1})

\* some root directory name contains the characters cs
in_root_dirs(cs, root_dirs) ==
    \E i \in 1..Len(root_dirs) : Contains(Chars[root_dirs[i]], cs)

\* the points one indicator of project_indicators earns (0: no match)
indicator_points(indicator, root_dirs) ==
    LET ind == Chars[indicator]
    IN  IF endswith(ind, "/")
        THEN IF in_root_dirs(rstrip(ind, "/"), root_dirs) THEN 2 ELSE 0
        ELSE IF \E i \in 1..Len(ind) : ind[i] = "*"
        THEN IF \E f \in rglob : re_match(replace(ind, "*", <<".", "*">>), full_str(f))
             THEN 1 ELSE 0
        ELSE IF exists(indicator) THEN 3 ELSE 0

\* the dependency names of package.json as _detect_project_type reads them:
\* nothing when the file cannot be opened or parsed (except: pass)
package_deps ==
    IF exists("package.json") /\ ~load_json_raises("package.json")
    THEN json_files["package.json"].deps \cup json_files["package.json"].dev_deps
    ELSE {}

\* the additions _detect_project_type makes to type_scores, in the order it
\* makes them, each as <<type, points>>
type_increments(root_dirs) ==
    LET of_type(t) ==
            LET inds == project_indicators[t]
                all == [i \in 1..Len(inds) |-> <<t, indicator_points(inds[i], root_dirs)>>]
                scored(x) == x[2] > 0
            IN  SelectSeq(all, scored)
        from_indicators ==
            Flatten([i \in 1..Len(ProjectTypes) |-> of_type(ProjectTypes[i])])
        from_package ==
            (IF package_deps \cap {"react", "vue", "angular", "svelte"} # {}
             THEN << <<"web", 3>> >> ELSE <<>>) \o
            (IF package_deps \cap {"express", "koa", "fastify"} # {}
             THEN << <<"api", 3>> >> ELSE <<>>) \o
            (IF package_deps \cap {"electron", "tauri"} # {}
             THEN << <<"desktop", 3>> >> ELSE <<>>)
        from_api ==
            IF \E i \in 1..Len(root_dirs) : Contains(lower(Chars[root_dirs[i]]), Chars["api"])
            THEN << <<"api", 2>> >> ELSE <<>>
    IN  from_indicators \o from_package \o from_api

\* the keys of a defaultdict after these additions, in insertion order
RECURSIVE inserted_keys(_)
inserted_keys(incs) ==
    IF incs = <<>> THEN <<>>
    ELSE LET front == inserted_keys(SubSeq(incs, 1, Len(incs) - 1))
             k == incs[Len(incs)][1]
         IN  IF \E i \in 1..Len(front) : front[i] = k THEN front ELSE Append(front, k)

\* the value the defaultdict holds for key k after these additions
RECURSIVE total_of(_, _)
total_of(incs, k) ==
    IF incs = <<>> THEN 0
    ELSE (IF Head(incs)[1] = k THEN Head(incs)[2] ELSE 0) + total_of(Tail(incs), k)

\* max(items, key=...), values[i] being the key of items[i]: the first item, in
\* iteration order, whose key is largest
first_max(items, values) ==
    items[CHOOSE i \in 1..Len(items) :
            /\ \A j \in 1..Len(items) : values[j] <= values[i]
            /\ \A j \in 1..(i - 1) : values[j] < values[i]]

\* _detect_project_type
_detect_project_type(root_dirs) ==
    LET incs == type_increments(root_dirs)
        types == inserted_keys(incs)
        type_scores == [i \in 1..Len(types) |-> total_of(incs, types[i])]
    IN  IF incs # <<>> THEN first_max(types, type_scores) ELSE "unknown"

\* the points _analyze_complexity adds for the indicators of one level
complexity_points(level, root_dirs) ==
    LET inds == complexity_indicators[level]
        matched(i) ==
            IF endswith(Chars[inds[i]], "/")
            THEN in_root_dirs(rstrip(Chars[inds[i]], "/"), root_dirs)
            ELSE exists(inds[i])
        worth == IF level = "high" THEN 3 ELSE IF level = "medium" THEN 2 ELSE 0
    IN  worth * Cardinality({i \in 1..Len(inds) : matched(i)})

\* complexity_score with the thresholds taken inclusively
complexity_score_inclusive(directories, stats) ==
    (IF stats.total_files >= 1000 THEN 3
     ELSE IF stats.total_files >= 100 THEN 2
     ELSE IF stats.total_files >= 20 THEN 1 ELSE 0)
    + (IF directories.depth >= 8 THEN 3
       ELSE IF directories.depth >= 5 THEN 2
       ELSE IF directories.depth >= 3 THEN 1 ELSE 0)
    + complexity_points("high", directories.root_dirs)
    + complexity_points("medium", directories.root_dirs)
    + complexity_points("low", directories.root_dirs)

\* complexity_score with the file bonus subtracted
complexity_score_files_subtracted(directories, stats) ==
    - (IF stats.total_files > 1000 THEN 3
       ELSE IF stats.total_files > 100 THEN 2
       ELSE IF stats.total_files > 20 THEN 1 ELSE 0)
    + (IF directories.depth > 8 THEN 3
       ELSE IF directories.depth > 5 THEN 2
       ELSE IF directories.depth > 3 THEN 1 ELSE 0)
    + complexity_points("high", directories.root_dirs)
    + complexity_points("medium", directories.root_dirs)
    + complexity_points("low", directories.root_dirs)

\* complexity_score of _analyze_complexity
complexity_score(directories, stats) ==
    (IF stats.total_files > 1000 THEN 3
     ELSE IF stats.total_files > 100 THEN 2
     ELSE IF stats.total_files > 20 THEN 1 ELSE 0)
    + (IF directories.depth > 8 THEN 3
       ELSE IF directories.depth > 5 THEN 2
       ELSE IF directories.depth > 3 THEN 1 ELSE 0)
    + complexity_points("high", directories.root_dirs)
    + complexity_points("medium", directories.root_dirs)
    + complexity_points("low", directories.root_dirs)

\* _analyze_complexity
_analyze_complexity(directories, stats) ==
    IF complexity_score(directories, stats) >= 8 THEN "high"
    ELSE IF complexity_score(directories, stats) >= 4 THEN "medium"
    ELSE "low"

\* directories['root_dirs'] lower-cased, as character sequences
lowered(root_dirs) ==
    [i \in 1..Len(root_dirs) |-> lower(Chars[root_dirs[i]])]

\* layer in root_dirs, for one of the lower-cased root directories
is_root_dir(word, root_dirs) ==
    \E i \in 1..Len(root_dirs) : lowered(root_dirs)[i] = Chars[word]

\* layer in ' '.join(root_dirs)
in_joined_root_dirs(word, root_dirs) ==
    Contains(join(lowered(root_dirs), <<" ">>), Chars[word])

\* _analyze_architecture with if in place of elif, so that a later matching
\* rule overwrites the pattern of an earlier one
_analyze_architecture_overwriting(directories) ==
    LET root_dirs == directories.root_dirs
        mvc == \A w \in {"models", "views", "controllers"} : is_root_dir(w, root_dirs)
        layered == \A w \in {"controller", "service", "repository"} :
                       in_joined_root_dirs(w, root_dirs)
        modular == \E w \in {"modules", "components", "features"} : is_root_dir(w, root_dirs)
        microservices == \E w \in {"services", "microservices"} : is_root_dir(w, root_dirs)
    IN  [ pattern |-> IF microservices THEN "microservices"
                      ELSE IF modular THEN "modular"
                      ELSE IF layered THEN "layered"
                      ELSE IF mvc THEN "mvc"
                      ELSE "unknown",
          layers |-> IF layered THEN <<"controller", "service", "repository">>
                     ELSE IF mvc THEN <<"models", "views", "controllers">>
                     ELSE <<>>,
          has_separation |-> mvc \/ layered,
          has_modules |-> modular \/ microservices ]

\* _analyze_architecture
_analyze_architecture(directories) ==
    LET root_dirs == directories.root_dirs
        mvc == \A w \in {"models", "views", "controllers"} : is_root_dir(w, root_dirs)
        layered == \A w \in {"controller", "service", "repository"} :
                       in_joined_root_dirs(w, root_dirs)
        modular == \E w \in {"modules", "components", "features"} : is_root_dir(w, root_dirs)
        microservices == \E w \in {"services", "microservices"} : is_root_dir(w, root_dirs)
    IN  IF mvc
        THEN [ pattern |-> "mvc", layers |-> <<"models", "views", "controllers">>,
               has_separation |-> TRUE, has_modules |-> FALSE ]
        ELSE IF layered
        THEN [ pattern |-> "layered", layers |-> <<"controller", "service", "repository">>,
               has_separation |-> TRUE, has_modules |-> FALSE ]
        ELSE IF modular
        THEN [ pattern |-> "modular", layers |-> <<>>,
               has_separation |-> FALSE, has_modules |-> TRUE ]
        ELSE IF microservices
        THEN [ pattern |-> "microservices", layers |-> <<>>,
               has_separation |-> FALSE, has_modules |-> TRUE ]
        ELSE [ pattern |-> "unknown", layers |-> <<>>,
               has_separation |-> FALSE, has_modules |-> FALSE ]

\* analyze_structure: the exception it raises, or "none"
analyze_structure_error ==
    IF _analyze_directories_raises THEN "PermissionError" ELSE get_project_name_error

\* analyze_structure, when it raises nothing
analyze_structure(root_order) ==
    LET stats == calculate_file_stats
        directories == _analyze_directories(root_order)
    IN  [ type |-> _detect_project_type(directories.root_dirs),
          complexity |-> _analyze_complexity(directories, stats),
          architecture |-> _analyze_architecture(directories),
          directories |-> directories,
          stats |-> stats,
          files_count |-> stats.total_files,
          project_name |-> get_project_name ]

\* detect_languages without the final sort: the detected languages in the
\* order of the table
detect_languages_unsorted ==
    LET counted == {p \in rglob : is_file(p) /\ ~_is_ignored_file(p)}
        extension_of == {<<p, get_file_extension(p)>> : p \in counted}
        extension_counts(e) == Cardinality({x \in extension_of : x[2] = e})
        detected(l) ==
            \E i \in 1..Len(language_extensions[l]) :
                extension_counts(language_extensions[l][i]) > 0
    IN  SelectSeq(Languages, detected)

\* detect_languages
detect_languages ==
    LET counted == {p \in rglob : is_file(p) /\ ~_is_ignored_file(p)}
        extension_of == {<<p, get_file_extension(p)>> : p \in counted}
        extension_counts(e) == Cardinality({x \in extension_of : x[2] = e})
        language_score(l) ==
            LET exts == language_extensions[l]
            IN  SumOver([i \in 1..Len(exts) |-> extension_counts(exts[i])], 1..Len(exts))
        detected(l) ==
            \E i \in 1..Len(language_extensions[l]) :
                extension_counts(language_extensions[l][i]) > 0
        detected_languages == SelectSeq(Languages, detected)
    IN  sorted_reverse(detected_languages,
                       [i \in 1..Len(detected_languages) |->
                           language_score(detected_languages[i])])

(***************************************************************************)
(* src/src/analyzers/framework_detector.py                                 *)
(***************************************************************************)
\* the [dependencies] entries of a Cargo.toml, line by line
RECURSIVE cargo_dependencies(_, _)
cargo_dependencies(lines, in_dependencies) ==
    IF lines = <<>> THEN {}
    ELSE LET line == strip(Head(lines))
         IN  IF line = Chars["[dependencies]"] THEN cargo_dependencies(Tail(lines), TRUE)
             ELSE IF startswith(line, "[") THEN cargo_dependencies(Tail(lines), FALSE)
             ELSE IF in_dependencies /\ \E i \in 1..Len(line) : line[i] = "="
             THEN {strip(UpTo(line, {"="}))} \cup cargo_dependencies(Tail(lines), in_dependencies)
             ELSE cargo_dependencies(Tail(lines), in_dependencies)

\* the package names of a requirements.txt: re.split(r'[=<>!]', line)[0].strip()
\* of every line that is neither empty nor a comment
requirements_dependencies(lines) ==
    LET stripped(i) == strip(lines[i])
    IN  { strip(UpTo(stripped(i), {"=", "<", ">", "!"})) :
            i \in {k \in 1..Len(lines) : stripped(k) # <<>> /\ ~startswith(stripped(k), "#")} }

\* _extract_dependencies: the dependency names of a manifest, as character
\* sequences; a manifest that cannot be read or parsed gives none (except: pass)
_extract_dependencies(dep_file) ==
    IF dep_file \in {"package.json", "composer.json"}
    THEN IF load_json_raises(dep_file) THEN {}
         ELSE {Chars[d] : d \in json_files[dep_file].deps \cup json_files[dep_file].dev_deps}
    ELSE IF <<dep_file>> \in unreadable THEN {}
    ELSE IF dep_file = "requirements.txt" THEN requirements_dependencies(text_files[dep_file])
    ELSE IF dep_file = "Cargo.toml" THEN cargo_dependencies(text_files[dep_file], FALSE)
    ELSE {}

\* _find_pattern_in_project
_find_pattern_in_project(pattern) ==
    LET pat == Chars[pattern]
        search_extensions == {".js", ".jsx", ".ts", ".tsx", ".py", ".php", ".vue", ".svelte"}
    IN  IF endswith(pat, "/") THEN exists(pattern)
        ELSE IF ~\E i \in 1..Len(pat) : pat[i] \in {"*", "?", "[", "]", "(", ")"}
        THEN exists(pattern)
        ELSE \E f \in rglob :
                /\ is_file(f)
                /\ StrOf(suffix(name(f))) \in search_extensions
                /\ st_size(f) < 1024 * 1024
                /\ f \notin unreadable
                /\ pattern \in RegexMatches(f)

\* how many of the tests of one scoring loop succeed
CountIn(tests) ==
    Cardinality({i \in 1..Len(tests) : tests[i]})

\* _calculate_framework_score with one point, not two, for a pattern found in
\* the code
_calculate_framework_score_one_per_pattern(framework) ==
    LET config == framework_patterns[framework]
        dep_files == <<"package.json", "composer.json", "requirements.txt", "Cargo.toml">>
        declared(dep_file) ==
            LET dependencies == _extract_dependencies(dep_file)
                found(dep) == Chars[dep] \in dependencies
            IN  IF exists(dep_file)
                THEN CountIn([i \in 1..Len(config.dependencies) |->
                                 found(config.dependencies[i])])
                ELSE 0
    IN  3 * CountIn([i \in 1..Len(config.files) |-> exists(config.files[i])])
        + 5 * SumOver([i \in 1..Len(dep_files) |-> declared(dep_files[i])], 1..Len(dep_files))
        + CountIn([i \in 1..Len(config.patterns) |->
                     _find_pattern_in_project(config.patterns[i])])
        + 2 * CountIn([i \in 1..Len(config.config_files) |-> exists(config.config_files[i])])

\* _calculate_framework_score
_calculate_framework_score(framework) ==
    LET config == framework_patterns[framework]
        dep_files == <<"package.json", "composer.json", "requirements.txt", "Cargo.toml">>
        declared(dep_file) ==
            LET dependencies == _extract_dependencies(dep_file)
                found(dep) == Chars[dep] \in dependencies
            IN  IF exists(dep_file)
                THEN CountIn([i \in 1..Len(config.dependencies) |->
                                 found(config.dependencies[i])])
                ELSE 0
    IN  3 * CountIn([i \in 1..Len(config.files) |-> exists(config.files[i])])
        + 5 * SumOver([i \in 1..Len(dep_files) |-> declared(dep_files[i])], 1..Len(dep_files))
        + 2 * CountIn([i \in 1..Len(config.patterns) |->
                         _find_pattern_in_project(config.patterns[i])])
        + 2 * CountIn([i \in 1..Len(config.config_files) |-> exists(config.config_files[i])])

\* _calculate_confidence with > in place of >=
_calculate_confidence_exclusive(s) ==
    IF s > 10 THEN "very_high"
    ELSE IF s > 7 THEN "high"
    ELSE IF s > 4 THEN "medium"
    ELSE IF s > 2 THEN "low"
    ELSE "very_low"

\* _calculate_confidence
_calculate_confidence(s) ==
    IF s >= 10 THEN "very_high"
    ELSE IF s >= 7 THEN "high"
    ELSE IF s >= 4 THEN "medium"
    ELSE IF s >= 2 THEN "low"
    ELSE "very_low"

\* modern_frameworks of _calculate_modern_score
modern_frameworks ==
    {"react", "vue", "angular", "svelte", "next", "nuxt",
     "fastapi", "nestjs", "vite", "tailwind", "tauri"}

\* _calculate_modern_score for the names of the detected frameworks;
\* int(ratio * 10) is the quotient 10 * modern_count \div total_count
_calculate_modern_score(frameworks) ==
    LET modern_count == Cardinality({i \in 1..Len(frameworks) :
                                        frameworks[i] \in modern_frameworks})
        total_count == Len(frameworks)
        truncated == (10 * modern_count) \div total_count
        raised == IF truncated < 1 THEN 1 ELSE truncated
    IN  IF total_count = 0 THEN 5
        ELSE IF raised > 10 THEN 10 ELSE raised

\* detect with the frameworks sorted ascending and the list reversed, which
\* turns the order of equal scores around
detect_reversed_ties ==
    LET scored == [i \in 1..Len(Frameworks) |->
                      <<Frameworks[i], _calculate_framework_score(Frameworks[i])>>]
        positive(x) == x[2] > 0
        detected_frameworks == SelectSeq(scored, positive)
        ascending == sorted_reverse(detected_frameworks,
                                    [i \in 1..Len(detected_frameworks) |->
                                        -detected_frameworks[i][2]])
        sorted_frameworks == [i \in 1..Len(ascending) |-> ascending[Len(ascending) + 1 - i]]
    IN  [ primary |-> IF sorted_frameworks # <<>> THEN sorted_frameworks[1][1] ELSE "unknown",
          all |-> sorted_frameworks,
          confidence_scores |->
              [i \in 1..Len(detected_frameworks) |->
                  <<detected_frameworks[i][1], _calculate_confidence(detected_frameworks[i][2])>>],
          tech_stack |->
              [ modern_score |->
                    _calculate_modern_score([i \in 1..Len(detected_frameworks) |->
                                                detected_frameworks[i][1]]) ] ]

\* detect: 'all' is the detected frameworks as <<name, score>>, best first
detect ==
    LET scored == [i \in 1..Len(Frameworks) |->
                      <<Frameworks[i], _calculate_framework_score(Frameworks[i])>>]
        positive(x) == x[2] > 0
        detected_frameworks == SelectSeq(scored, positive)
        sorted_frameworks == sorted_reverse(detected_frameworks,
                                            [i \in 1..Len(detected_frameworks) |->
                                                detected_frameworks[i][2]])
    IN  [ primary |-> IF sorted_frameworks # <<>> THEN sorted_frameworks[1][1] ELSE "unknown",
          all |-> sorted_frameworks,
          confidence_scores |->
              [i \in 1..Len(detected_frameworks) |->
                  <<detected_frameworks[i][1], _calculate_confidence(detected_frameworks[i][2])>>],
          tech_stack |->
              [ modern_score |->
                    _calculate_modern_score([i \in 1..Len(detected_frameworks) |->
                                                detected_frameworks[i][1]]) ] ]

(***************************************************************************)
(* src/src/agent.py                                                        *)
(***************************************************************************)
\* _analyze_existing_ce raises when CLAUDE.md exists and read_text() is refused
_analyze_existing_ce_raises ==
    exists("CLAUDE.md") /\ <<"CLAUDE.md">> \in unreadable

\* _analyze_existing_ce with the length test made outside the else branch
_analyze_existing_ce_unnested ==
    [ issues |->
          (IF ~exists("CLAUDE.md") THEN <<"CLAUDE.md mancante">> ELSE <<>>)
          \o (IF claude_md < 100 THEN <<"CLAUDE.md troppo breve">> ELSE <<>>),
      suggestions |->
          (IF ~exists("CLAUDE.md") THEN <<"Creare CLAUDE.md con configurazione progetto">>
           ELSE <<>>)
          \o (IF claude_md < 100 THEN <<"Espandere CLAUDE.md con più dettagli">> ELSE <<>>)
          \o (IF ~exists(".claude")
              THEN <<"Creare directory .claude/ per configurazioni avanzate">> ELSE <<>>) ]

\* _analyze_existing_ce
_analyze_existing_ce ==
    [ issues |->
          IF ~exists("CLAUDE.md") THEN <<"CLAUDE.md mancante">>
          ELSE IF claude_md < 100 THEN <<"CLAUDE.md troppo breve">>
          ELSE <<>>,
      suggestions |->
          (IF ~exists("CLAUDE.md") THEN <<"Creare CLAUDE.md con configurazione progetto">>
           ELSE IF claude_md < 100 THEN <<"Espandere CLAUDE.md con più dettagli">>
           ELSE <<>>)
          \o (IF ~exists(".claude")
              THEN <<"Creare directory .claude/ per configurazioni avanzate">> ELSE <<>>) ]

\* round-half-up in place of int()
int_of_halves_rounded(halves) ==
    (halves + 1) \div 2

\* int(x) of a float given in halves (x = halves / 2): truncation toward zero
int_of_halves(halves) ==
    IF halves >= 0 THEN halves \div 2 ELSE -((-halves) \div 2)

\* _calculate_ce_score with the framework bonus given for any primary
\* framework name, 'unknown' included
_calculate_ce_score_any_primary(has_claude, complexity, primary, issues) ==
    LET halves == 2 * 5
                  + (IF has_claude THEN 2 * 2 ELSE 0)
                  + (IF complexity = "low" THEN 2 * 1
                     ELSE IF complexity = "high" THEN -(2 * 1) ELSE 0)
                  + 2 * 1
                  - Len(issues)
        capped == IF int_of_halves(halves) < 10 THEN int_of_halves(halves) ELSE 10
    IN  IF capped > 1 THEN capped ELSE 1

\* _calculate_ce_score; the running score is kept in halves because of the
\* 0.5 per issue
_calculate_ce_score(has_claude, complexity, primary, issues) ==
    LET halves == 2 * 5
                  + (IF has_claude THEN 2 * 2 ELSE 0)
                  + (IF complexity = "low" THEN 2 * 1
                     ELSE IF complexity = "high" THEN -(2 * 1) ELSE 0)
                  + (IF primary # "unknown" THEN 2 * 1 ELSE 0)
                  - Len(issues)
        capped == IF int_of_halves(halves) < 10 THEN int_of_halves(halves) ELSE 10
    IN  IF capped > 1 THEN capped ELSE 1

(***************************************************************************)
(* ContextEngineerAgent.analyze_project, one action per step               *)
(***************************************************************************)
NoStructure == [none |-> "structure"]
NoFrameworks == [none |-> "framework_info"]
NoAnalysis == [none |-> "ce_analysis"]
NoResult == [none |-> "result"]
NoCall == [outcome |-> "none", result |-> NoResult, error |-> "none", tree |-> {}]

\* the state before the first call, for a project that is one of trees
ProjectInit(trees) ==
    /\ path_exists \in BOOLEAN
    /\ path_readable \in BOOLEAN
    /\ path_exists \/ ~path_readable
    /\ tree \in trees
    /\ (path_exists /\ path_readable) \/ tree = {}
    /\ json_files \in
           [{m \in {"package.json", "composer.json"} : <<m>> \in tree} -> JsonContents]
    /\ text_files \in [{m \in {"requirements.txt"} : <<m>> \in tree} -> RequirementsContents]
    /\ claude_md \in IF <<"CLAUDE.md">> \in tree THEN ClaudeLengths ELSE {0}
    /\ unreadable \in SUBSET (tree \cap MayBeUnreadable)
    /\ <<"CLAUDE.md">> \in unreadable => claude_md = 100
    /\ debug_log = 0
    /\ pc = "idle"
    /\ calls = 0
    /\ ran = {}
    /\ structure = NoStructure
    /\ framework_info = NoFrameworks
    /\ languages = <<>>
    /\ ce_analysis = NoAnalysis
    /\ score = 0
    /\ result = NoResult
    /\ error = "none"
    /\ last = NoCall
    /\ scanned = {}
    /\ StoresIdle

\* no project is under analysis: the state the analysis variables keep while
\* the stores are used
AnalysisIdle ==
    /\ path_exists = TRUE
    /\ path_readable = TRUE
    /\ tree = {}
    /\ json_files = <<>>
    /\ text_files = <<>>
    /\ claude_md = 0
    /\ unreadable = {}
    /\ debug_log = 0
    /\ pc = "idle"
    /\ calls = 0
    /\ ran = {}
    /\ structure = NoStructure
    /\ framework_info = NoFrameworks
    /\ languages = <<>>
    /\ ce_analysis = NoAnalysis
    /\ score = 0
    /\ result = NoResult
    /\ error = "none"
    /\ last = NoCall
    /\ scanned = {}

Init ==
    ProjectInit(Trees)

\* the caller invokes analyze_project(project_path); what the previous call
\* returned or raised, and the tree it scanned, are kept in last
Call ==
    /\ pc \in {"idle", "returned", "raised"}
    /\ calls < MaxCalls
    /\ calls' = calls + 1
    /\ last' = IF pc = "idle" THEN NoCall
               ELSE [outcome |-> pc, result |-> result, error |-> error, tree |-> scanned]
    /\ scanned' = tree
    /\ pc' = "check"
    /\ ran' = {}
    /\ structure' = NoStructure
    /\ framework_info' = NoFrameworks
    /\ languages' = <<>>
    /\ ce_analysis' = NoAnalysis
    /\ score' = 0
    /\ result' = NoResult
    /\ error' = "none"
    /\ UNCHANGED <<storevars, fsvars, debug_log>>

\* an exception leaves a step: the except branch of analyze_project appends a
\* crash entry to the debug log and re-raises
Raise(exception) ==
    /\ pc' = "raised"
    /\ error' = exception
    /\ debug_log' = debug_log + 1

\* CheckPath without the os.access test
CheckPath_unchecked_access ==
    /\ pc = "check"
    /\ IF ~path_exists THEN Raise("FileNotFoundError")
       ELSE pc' = "structure" /\ UNCHANGED <<error, debug_log>>
    /\ UNCHANGED <<storevars, fsvars, calls, ran, structure, framework_info, languages,
                   ce_analysis, score, result, last, scanned>>

\* "Verifica esistenza e permessi"
CheckPath ==
    /\ pc = "check"
    /\ IF ~path_exists THEN Raise("FileNotFoundError")
       ELSE IF ~path_readable THEN Raise("PermissionError")
       ELSE pc' = "structure" /\ UNCHANGED <<error, debug_log>>
    /\ UNCHANGED <<storevars, fsvars, calls, ran, structure, framework_info, languages,
                   ce_analysis, score, result, last, scanned>>

\* structure = self.project_analyzer.analyze_structure(project_path)
AnalyzeStructure ==
    /\ pc = "structure"
    /\ ran' = ran \cup {"structure"}
    /\ IF analyze_structure_error # "none"
       THEN Raise(analyze_structure_error) /\ UNCHANGED structure
       ELSE /\ \E root_order \in root_orders : structure' = analyze_structure(root_order)
            /\ pc' = "framework"
            /\ UNCHANGED <<error, debug_log>>
    /\ UNCHANGED <<storevars, fsvars, calls, framework_info, languages, ce_analysis, score,
                   result, last, scanned>>

\* framework_info = self.framework_detector.detect(project_path)
DetectFramework ==
    /\ pc = "framework"
    /\ ran' = ran \cup {"framework"}
    /\ framework_info' = detect
    /\ pc' = "languages"
    /\ UNCHANGED <<storevars, fsvars, calls, structure, languages, ce_analysis, score, result,
                   error, last, scanned, debug_log>>

\* languages = self.project_analyzer.detect_languages(project_path)
DetectLanguages ==
    /\ pc = "languages"
    /\ ran' = ran \cup {"languages"}
    /\ languages' = detect_languages
    /\ pc' = "ce"
    /\ UNCHANGED <<storevars, fsvars, calls, structure, framework_info, ce_analysis, score,
                   result, error, last, scanned, debug_log>>

\* ce_analysis = self._analyze_existing_ce(project_path)
AnalyzeExistingCE ==
    /\ pc = "ce"
    /\ ran' = ran \cup {"ce"}
    /\ IF _analyze_existing_ce_raises
       THEN Raise("PermissionError") /\ UNCHANGED ce_analysis
       ELSE /\ ce_analysis' = _analyze_existing_ce
            /\ pc' = "score"
            /\ UNCHANGED <<error, debug_log>>
    /\ UNCHANGED <<storevars, fsvars, calls, structure, framework_info, languages, score,
                   result, last, scanned>>

\* score = self._calculate_ce_score(project_path, structure, framework_info, ce_analysis)
CalculateScore ==
    /\ pc = "score"
    /\ ran' = ran \cup {"score"}
    /\ score' = _calculate_ce_score(exists("CLAUDE.md"), structure.complexity,
                                    framework_info.primary, ce_analysis.issues)
    /\ pc' = "result"
    /\ UNCHANGED <<storevars, fsvars, calls, structure, framework_info, languages, ce_analysis,
                   result, error, last, scanned, debug_log>>

\* "Costruzione risultato finale" and return
BuildResult ==
    /\ pc = "result"
    /\ result' =
           [ path |-> project_path,
             name |-> LET parts == PathParts(Chars[project_path])
                      IN  StrOf(parts[Len(parts)]),
             type |-> structure.type,
             framework |-> framework_info.primary,
             frameworks_detected |-> framework_info.all,
             languages |-> IF languages # <<>> THEN languages ELSE <<"unknown">>,
             structure |-> structure,
             ce_score |-> IF score # 0 THEN score ELSE 5,
             has_claude_config |-> exists("CLAUDE.md"),
             has_initial |-> exists("INITIAL.md"),
             issues |-> ce_analysis.issues,
             suggestions |-> ce_analysis.suggestions,
             complexity |-> structure.complexity,
             files_count |-> structure.files_count,
             analyzed_at |-> calls ]
    /\ pc' = "returned"
    /\ UNCHANGED <<storevars, fsvars, calls, ran, structure, framework_info, languages,
                   ce_analysis, score, error, last, scanned, debug_log>>

\* between two calls something outside the agent (a package manager, a build)
\* rewrites the contents of a directory of ignored_dirs
ChangeIgnoredContents ==
    /\ pc \in {"returned", "raised"}
    /\ calls < MaxCalls
    /\ \E p \in Universe :
          /\ Len(p) > 1
          /\ \E i \in 1..(Len(p) - 1) : p[i] \in ignored_dirs
          /\ tree' = IF p \in tree THEN tree \ {p} ELSE tree \cup {p}
          /\ IsTree(tree')
    /\ UNCHANGED <<storevars, path_exists, path_readable, json_files, text_files, claude_md,
                   unreadable, callvars>>

Next ==
    \/ Call
    \/ CheckPath
    \/ AnalyzeStructure
    \/ DetectFramework
    \/ DetectLanguages
    \/ AnalyzeExistingCE
    \/ CalculateScore
    \/ BuildResult
    \/ ChangeIgnoredContents

Spec ==
    Init /\ [][Next]_vars

\* calls on a project that nothing else touches
Scan ==
    \/ Call
    \/ CheckPath
    \/ AnalyzeStructure
    \/ DetectFramework
    \/ DetectLanguages
    \/ AnalyzeExistingCE
    \/ CalculateScore
    \/ BuildResult

(***************************************************************************)
(* src/src/storage/memory.py: the MCP response cache of MemoryManager      *)
(***************************************************************************)
\* len(self.cache['mcp_responses']) above which cache_mcp_response trims
MaxCacheEntries ==
    100

\* the entries cache_mcp_response keeps when it trims
KeptCacheEntries ==
    50

\* cache operations explored on one MemoryManager
MaxOps ==
    2

\* the endpoints and the queries of the calls; query k stands for the k-th of
\* the distinct query strings used
Endpoints ==
    {"e1", "e2"}
Queries ==
    {1, MaxCacheEntries, MaxCacheEntries + 1}

\* hash(query) within one process: distinct for the queries used here
hash(query) ==
    (query * 7919 + 13) % 2147483647

\* cache_key = f"{endpoint}:{hash(query)}"; hash() is an integer, so the key
\* determines both parts
cache_key(endpoint, query) ==
    <<endpoint, hash(query)>>

\* the position of cache_key in the dictionary, 0 when it is not a key
key_position(responses, key) ==
    IF \E i \in 1..Len(responses) : responses[i].key = key
    THEN CHOOSE i \in 1..Len(responses) : responses[i].key = key
    ELSE 0

\* self.cache['mcp_responses'][cache_key] = {...}: an existing key keeps its
\* place in the dictionary, a new key goes last
stored(responses, endpoint, query, response, timestamp) ==
    LET key == cache_key(endpoint, query)
        item == [key |-> key, response |-> response, timestamp |-> timestamp,
                 endpoint |-> endpoint, query |-> query]
        at == key_position(responses, key)
    IN  IF at = 0 THEN Append(responses, item)
        ELSE [responses EXCEPT ![at] = item]

\* sorted(items, key=lambda x: x[1]['timestamp']): a stable ascending sort
sorted_by_timestamp(responses) ==
    LET n == Len(responses)
        rank == [i \in 1..n |->
                    1 + Cardinality({j \in 1..n :
                                        responses[j].timestamp < responses[i].timestamp})
                      + Cardinality({j \in 1..(i - 1) :
                                        responses[j].timestamp = responses[i].timestamp})]
                \o <<>>
    IN  [pos \in 1..n |-> responses[CHOOSE i \in 1..n : rank[i] = pos]]

\* cache_mcp_response keeping sorted_items[:50], the oldest entries
cache_mcp_response_keeping_oldest(responses, endpoint, query, response, timestamp) ==
    LET inserted == stored(responses, endpoint, query, response, timestamp)
        sorted_items == sorted_by_timestamp(inserted)
    IN  IF Len(inserted) > MaxCacheEntries
        THEN SubSeq(sorted_items, 1, KeptCacheEntries)
        ELSE inserted

\* cache_mcp_response: the dictionary it leaves
cache_mcp_response(responses, endpoint, query, response, timestamp) ==
    LET inserted == stored(responses, endpoint, query, response, timestamp)
        sorted_items == sorted_by_timestamp(inserted)
    IN  IF Len(inserted) > MaxCacheEntries
        THEN SubSeq(sorted_items, Len(sorted_items) - KeptCacheEntries + 1,
                    Len(sorted_items))
        ELSE inserted

\* get_cached_mcp_response: what it returns, or the exception it raises.  The
\* module imports datetime only, so the name timedelta of the age check is
\* undefined and evaluating it raises NameError
get_cached_mcp_response(responses, endpoint, query, max_age_hours) ==
    IF key_position(responses, cache_key(endpoint, query)) = 0
    THEN [outcome |-> "returned", value |-> "None"]
    ELSE [outcome |-> "raised", value |-> "NameError"]

\* the cache a MemoryManager loads from the file an earlier session saved: n
\* responses of endpoint e1 to the queries 1..n, cached at the instants 1..n
loaded(n) ==
    [k \in 1..n |-> [key |-> cache_key("e1", k), response |-> 0, timestamp |-> k,
                     endpoint |-> "e1", query |-> k]]

CacheInit ==
    /\ AnalysisIdle
    /\ PrefsIdle
    /\ SetupIdle
    /\ BackupIdle
    /\ \E n \in {0, 1, MaxCacheEntries - 1, MaxCacheEntries} :
           /\ mcp_responses = loaded(n)
           /\ now = n
    /\ cached = [op |-> "load", ops |-> 0]

\* datetime.now() at the next call: later than at the last one, the same
\* instant, or earlier when the local clock was set back in between (the
\* timestamps are naive local times: a change of time zone, a correction);
\* one instant is a minute, an hour or a day
Instants ==
    {now + 1, now, now - MaxCacheEntries}

\* memory.cache_mcp_response(endpoint, query, response)
CacheMcpResponse ==
    /\ cached.ops < MaxOps
    /\ \E endpoint \in Endpoints, query \in Queries, t \in Instants :
           /\ now' = t
           /\ mcp_responses' = cache_mcp_response(mcp_responses, endpoint, query,
                                                  cached.ops + 1, t)
           /\ cached' = [op |-> "cache", ops |-> cached.ops + 1,
                         key |-> cache_key(endpoint, query), before |-> mcp_responses]
    /\ UNCHANGED <<fsvars, callvars, prefvars, setupvars, backupvars>>

\* memory.get_cached_mcp_response(endpoint, query, max_age_hours)
GetCachedMcpResponse ==
    /\ cached.ops < MaxOps
    /\ \E endpoint \in Endpoints, query \in Queries, max_age_hours \in {0, 24} :
           cached' = [op |-> "get", ops |-> cached.ops + 1,
                      key |-> cache_key(endpoint, query),
                      max_age_hours |-> max_age_hours,
                      got |-> get_cached_mcp_response(mcp_responses, endpoint, query,
                                                      max_age_hours)]
    /\ UNCHANGED <<fsvars, callvars, prefvars, setupvars, backupvars, mcp_responses, now>>

\* memory.clear_cache()
ClearCache ==
    /\ cached.ops < MaxOps
    /\ mcp_responses' = <<>>
    /\ cached' = [op |-> "clear", ops |-> cached.ops + 1]
    /\ UNCHANGED <<fsvars, callvars, prefvars, setupvars, backupvars, now>>

CacheNext ==
    \/ CacheMcpResponse
    \/ GetCachedMcpResponse
    \/ ClearCache

SpecCache ==
    CacheInit /\ [][CacheNext]_vars
(***************************************************************************)
(* src/src/storage/preferences.py: the preferences of PreferencesManager   *)
(***************************************************************************)
\* the JSON values a preference holds; a dictionary maps names, as character
\* sequences, to values
Str(s) == [type |-> "str", value |-> s]
Bool(b) == [type |-> "bool", value |-> b]
List(items) == [type |-> "list", value |-> items]
Dict(items) == [type |-> "dict", items |-> items]

\* the entries of _get_default_preferences the keys below reach, created and
\* last updated at the instant t
_get_default_preferences(t) ==
    Dict( (Chars["version"] :> Str("1.0.0")) @@
          (Chars["last_updated"] :> Str(t)) @@
          (Chars["programming"] :>
               Dict(Chars["favorite_languages"] :> List(<<>>))) @@
          (Chars["interface"] :>
               Dict( (Chars["theme"] :> Str("default")) @@
                     (Chars["show_welcome_message"] :> Bool(TRUE)) )) )

\* the keys and the values of the calls
PreferenceKeys ==
    {"theme", "interface", "interface.theme", "interface.theme.color",
     "editor.font.size", "last_updated"}
PreferenceValues ==
    {Str("dark"), Bool(FALSE), Dict(<<>>)}

\* the value get_preference returns for a key that is not stored
Default ==
    [type |-> "None"]

RECURSIVE walk(_, _, _)
\* the loop of get_preference over the remaining keys
walk(value, keys, default) ==
    IF keys = <<>> THEN value
    ELSE IF value.type = "dict" /\ Head(keys) \in DOMAIN value.items
    THEN walk(value.items[Head(keys)], Tail(keys), default)
    ELSE default

\* get_preference(key, default)
get_preference(prefs, key, default) ==
    walk(prefs, split(Chars[key], "."), default)

RECURSIVE assign(_, _, _)
\* set_preference from current on: the dictionary as the statements leave it,
\* and the exception raised, if any.  On a current that is not a dictionary
\* the membership test (bool, int, None), the subscript (str, list) or the
\* item assignment (str, list) raises TypeError.
assign(current, keys, value) ==
    IF current.type # "dict" THEN [node |-> current, error |-> "TypeError"]
    ELSE IF Len(keys) = 1
    THEN [node |-> Dict((Head(keys) :> value) @@ current.items), error |-> "none"]
    ELSE LET k == Head(keys)
             child == IF k \in DOMAIN current.items THEN current.items[k] ELSE Dict(<<>>)
             below == assign(child, Tail(keys), value)
         IN  [node |-> Dict((k :> below.node) @@ current.items), error |-> below.error]

\* the preferences save_preferences writes: last_updated is set to the instant
\* of the call
stamped(prefs, t) ==
    Dict((Chars["last_updated"] :> Str(t)) @@ prefs.items)

\* preference operations explored on one PreferencesManager
MaxPrefOps ==
    2

\* PreferencesManager(): no preferences.json yet, the defaults are loaded
PrefsInit ==
    /\ AnalysisIdle
    /\ CacheIdle
    /\ SetupIdle
    /\ BackupIdle
    /\ preferences = _get_default_preferences(now)
    /\ preferences_file = NoPreferences
    /\ pref = [op |-> "load", ops |-> 0]

\* set_preference(key, value): the assignment, then save_preferences(), which
\* stamps last_updated and writes preferences.json; a write that fails raises
\* Exception after the preferences in memory were changed
SetPreference ==
    /\ pref.ops < MaxPrefOps
    /\ \E key \in PreferenceKeys, value \in PreferenceValues,
          t \in {now, now + 1}, writable \in BOOLEAN :
          LET assigned == assign(preferences, split(Chars[key], "."), value)
          IN  /\ now' = t
              /\ IF assigned.error # "none"
                 THEN /\ preferences' = assigned.node
                      /\ UNCHANGED preferences_file
                 ELSE /\ preferences' = stamped(assigned.node, t)
                      /\ preferences_file' =
                             IF writable THEN preferences' ELSE preferences_file
              /\ pref' = [op |-> "set", ops |-> pref.ops + 1, key |-> key,
                          value |-> value, before |-> preferences,
                          error |-> IF assigned.error # "none" THEN assigned.error
                                    ELSE IF writable THEN "none" ELSE "Exception"]
    /\ UNCHANGED <<fsvars, callvars, setupvars, backupvars, mcp_responses, cached>>

\* get_preference(key), after whatever operation came before
GetPreference ==
    /\ pref.ops < MaxPrefOps
    /\ \E key \in PreferenceKeys :
          pref' = [op |-> "get", ops |-> pref.ops + 1, key |-> key,
                   got |-> get_preference(preferences, key, Default),
                   after |-> IF pref.op = "set"
                             THEN [op |-> "set", key |-> pref.key, value |-> pref.value,
                                   error |-> pref.error]
                             ELSE [op |-> pref.op]]
    /\ UNCHANGED <<fsvars, callvars, cachevars, setupvars, backupvars, preferences, preferences_file>>

PrefsNext ==
    \/ SetPreference
    \/ GetPreference

SpecPrefs ==
    PrefsInit /\ [][PrefsNext]_vars
(***************************************************************************)
(* ContextEngineerAgent.setup_project, one action per step                 *)
(***************************************************************************)
\* calls of setup_project made on the project
MaxSetups ==
    2

\* the variables of a call of analyze_project, the debug log apart
scanvars ==
    <<pc, calls, ran, structure, framework_info, languages, ce_analysis, score, result,
      error, last, scanned>>

\* the projects set up
SetupTrees ==
    SUBSET { <<"CLAUDE.md">>, <<"package.json">> }

\* the scores validate_setup may give; the text of the generated CLAUDE.md,
\* which it grades, is not part of the model
ValidationScores ==
    {5, 10}

\* analyze_project(project_path) as step 1 calls it: the exception it raises,
\* "none" when it returns
analyze_project_error ==
    IF ~path_exists THEN "FileNotFoundError"
    ELSE IF ~path_readable THEN "PermissionError"
    ELSE IF analyze_structure_error # "none" THEN analyze_structure_error
    ELSE IF _analyze_existing_ce_raises THEN "PermissionError"
    ELSE "none"

\* the entries of the analysis the later steps read
analysis_read(root_order) ==
    [ name |-> LET parts == PathParts(Chars[project_path]) IN StrOf(parts[Len(parts)]),
      type |-> analyze_structure(root_order).type,
      framework |-> detect.primary ]

\* the except branch of setup_project: a crash entry is appended to the debug
\* log (entries counts the one analyze_project appended before re-raising)
\* and the status 'error' is returned
SetupFails(step, exception, entries) ==
    /\ setup' = [setup EXCEPT !.pc = "returned",
                              !.steps = IF step = "check" THEN @ ELSE Append(@, step),
                              !.result = [status |-> "error", error |-> exception]]
    /\ debug_log' = debug_log + entries

\* the step has completed: the next one is due
SetupGoes(step, next) ==
    /\ setup' = [setup EXCEPT !.pc = next, !.steps = Append(@, step)]
    /\ UNCHANGED debug_log

\* setup_project(project_path): "Verifica path e permessi".  A missing
\* directory is created, unless mkdir raises; without write permission
\* PermissionError is raised.
SetupProject ==
    /\ setup.pc \in {"idle", "returned"}
    /\ setup.setups < MaxSetups
    /\ \E made \in BOOLEAN, writable \in BOOLEAN :
          LET started == [NoSetup EXCEPT !.setups = setup.setups + 1]
          IN  IF ~path_exists /\ ~made
              THEN /\ setup' = [started EXCEPT !.pc = "returned",
                                               !.result = [status |-> "error",
                                                           error |-> "PermissionError"]]
                   /\ debug_log' = debug_log + 1
                   /\ UNCHANGED <<path_exists, path_readable>>
              ELSE /\ path_exists' = TRUE
                   /\ path_readable' = (path_exists => path_readable)
                   /\ IF writable
                      THEN setup' = [started EXCEPT !.pc = "analyse"] /\ UNCHANGED debug_log
                      ELSE /\ setup' = [started EXCEPT !.pc = "returned",
                                                       !.result = [status |-> "error",
                                                                   error |-> "PermissionError"]]
                           /\ debug_log' = debug_log + 1
    /\ UNCHANGED <<tree, json_files, text_files, claude_md, unreadable, scanvars,
                   cachevars, prefvars, backupvars, projects_db, projects_file>>

\* step 1: analysis = self.analyze_project(project_path)
SetupAnalyse ==
    /\ setup.pc = "analyse"
    /\ IF analyze_project_error # "none"
       THEN SetupFails("analyse", analyze_project_error, 2)
       ELSE \E root_order \in root_orders :
               /\ setup' = [setup EXCEPT !.pc = "claude", !.steps = Append(@, "analyse"),
                                         !.analysis = analysis_read(root_order)]
               /\ UNCHANGED debug_log
    /\ UNCHANGED <<fsvars, scanvars, cachevars, prefvars, backupvars, projects_db, projects_file>>

\* step 2: the configuration is generated and written to CLAUDE.md; the
\* generated text is longer than 100 characters
SetupClaude ==
    /\ setup.pc = "claude"
    /\ \E written \in BOOLEAN :
          IF written
          THEN /\ tree' = tree \cup {<<"CLAUDE.md">>}
               /\ claude_md' = 100
               /\ SetupGoes("CLAUDE.md", "initial")
          ELSE SetupFails("CLAUDE.md", "PermissionError", 1) /\ UNCHANGED <<tree, claude_md>>
    /\ UNCHANGED <<path_exists, path_readable, json_files, text_files, unreadable, scanvars,
                   cachevars, prefvars, backupvars, projects_db, projects_file>>

\* step 3: the first feature request is generated and written to INITIAL.md
SetupInitial ==
    /\ setup.pc = "initial"
    /\ \E written \in BOOLEAN :
          IF written
          THEN tree' = tree \cup {<<"INITIAL.md">>} /\ SetupGoes("INITIAL.md", "directories")
          ELSE SetupFails("INITIAL.md", "PermissionError", 1) /\ UNCHANGED tree
    /\ UNCHANGED <<path_exists, path_readable, json_files, text_files, claude_md, unreadable,
                   scanvars, cachevars, prefvars, backupvars, projects_db, projects_file>>

\* the directories _create_project_structure ensures, in its order
structure_dirs(analysis) ==
    << <<".context-engineer">>, <<".claude">> >>
    \o (IF analysis.type \in {"web", "api"} THEN << <<".claude", "examples">> >> ELSE <<>>)

\* step 4: _create_project_structure; an ensure_dir that raises leaves the
\* directories made before it
SetupDirectories ==
    /\ setup.pc = "directories"
    /\ LET dirs == structure_dirs(setup.analysis)
       IN  \E made \in 0..Len(dirs) :
              /\ tree' = tree \cup {dirs[i] : i \in 1..made}
              /\ IF made = Len(dirs) THEN SetupGoes("directories", "examples")
                 ELSE SetupFails("directories", "PermissionError", 1)
    /\ UNCHANGED <<path_exists, path_readable, json_files, text_files, claude_md, unreadable,
                   scanvars, cachevars, prefvars, backupvars, projects_db, projects_file>>

\* step 5: _copy_examples; the repository has no templates directory, so
\* template_path.exists() is false and nothing is copied
SetupExamples ==
    /\ setup.pc = "examples"
    /\ SetupGoes("examples", "config")
    /\ UNCHANGED <<fsvars, scanvars, cachevars, prefvars, backupvars, projects_db, projects_file>>

\* step 6: _create_project_config saves .context-engineer/config.json
SetupConfig ==
    /\ setup.pc = "config"
    /\ \E written \in BOOLEAN :
          IF written
          THEN /\ tree' = tree \cup {<<".context-engineer">>,
                                     <<".context-engineer", "config.json">>}
               /\ SetupGoes("config.json", "validate")
          ELSE SetupFails("config.json", "PermissionError", 1) /\ UNCHANGED tree
    /\ UNCHANGED <<path_exists, path_readable, json_files, text_files, claude_md, unreadable,
                   scanvars, cachevars, prefvars, backupvars, projects_db, projects_file>>

\* steps 7 and 8: _verify_complete_setup and validator.validate_setup
SetupValidate ==
    /\ setup.pc = "validate"
    /\ \E validation_score \in ValidationScores :
          setup' = [setup EXCEPT !.pc = "db", !.steps = Append(@, "validate"),
                                 !.validation = [score |-> validation_score]]
    /\ UNCHANGED <<fsvars, scanvars, debug_log, cachevars, prefvars, backupvars, projects_db,
                   projects_file>>

\* _update_project_db: self.projects_db['projects'][project_key] = {...},
\* whatever _save_projects_db does afterwards
_update_project_db(db, analysis, validation_score) ==
    {e \in db : e.path # project_path}
    \cup {[path |-> project_path, name |-> analysis.name, type |-> analysis.type,
           framework |-> analysis.framework, score |-> validation_score]}

\* step 9: _update_project_db, which puts the project into the database and
\* saves it to projects.json, then the result 'success' is returned; a save
\* that raises ends in the except branch
SetupUpdateDb ==
    /\ setup.pc = "db"
    /\ \E saved \in BOOLEAN :
          /\ projects_db' = _update_project_db(projects_db, setup.analysis,
                                               setup.validation.score)
          /\ IF saved
             THEN /\ projects_file' = projects_db'
                  /\ setup' = [setup EXCEPT !.pc = "returned",
                                            !.steps = Append(@, "projects db"),
                                            !.result = [status |-> "success",
                                                        score |-> setup.validation.score]]
                  /\ UNCHANGED debug_log
             ELSE SetupFails("projects db", "PermissionError", 1) /\ UNCHANGED projects_file
    /\ UNCHANGED <<fsvars, scanvars, cachevars, prefvars, backupvars>>

SetupInit ==
    ProjectInit(SetupTrees)

SetupNext ==
    \/ SetupProject
    \/ SetupAnalyse
    \/ SetupClaude
    \/ SetupInitial
    \/ SetupDirectories
    \/ SetupExamples
    \/ SetupConfig
    \/ SetupValidate
    \/ SetupUpdateDb

SpecSetup ==
    SetupInit /\ [][SetupNext]_vars
(***************************************************************************)
(* src/src/git_integration/auto_backup.py: AutoBackup.auto_backup_session, *)
(* one action per Git operation                                            *)
(***************************************************************************)
\* calls of auto_backup_session made on the repository
MaxBackups ==
    2

\* what HEAD refers to: a branch with commits, a branch without any commit
\* yet (a repository just initialised), or a commit (detached)
Heads ==
    {"branch", "unborn", "detached"}

\* Repo(path) of GitPython: NoSuchPathError when the path does not exist,
\* InvalidGitRepositoryError when it holds no repository
Repo(r) ==
    IF ~r.exists THEN "NoSuchPathError"
    ELSE IF ~r.is_git THEN "InvalidGitRepositoryError"
    ELSE "none"

\* is_git_repository: only InvalidGitRepositoryError is caught
is_git_repository(r) ==
    IF Repo(r) = "none" THEN [raised |-> "none", value |-> TRUE]
    ELSE IF Repo(r) = "InvalidGitRepositoryError" THEN [raised |-> "none", value |-> FALSE]
    ELSE [raised |-> Repo(r), value |-> FALSE]

\* get_git_status: repo.active_branch raises TypeError on a detached HEAD and
\* repo.index.diff("HEAD") raises BadName while HEAD has no commit; the except
\* branch then returns a status without the entries of the repository
get_git_status(r) ==
    IF r.head # "branch" THEN [is_git_repo |-> TRUE, error |-> TRUE]
    ELSE [ is_git_repo |-> TRUE, error |-> FALSE,
           is_dirty |-> r.changes, untracked_files |-> r.untracked,
           has_remote_origin |-> r.origin ]

\* the repositories a session is backed up from
BackupInit ==
    /\ AnalysisIdle
    /\ CacheIdle
    /\ PrefsIdle
    /\ SetupIdle
    /\ repo \in { [exists |-> e, is_git |-> g, head |-> h, changes |-> c, untracked |-> u,
                   origin |-> o, commits |-> 0, pushes |-> 0] :
                     e \in BOOLEAN, g \in BOOLEAN, h \in Heads, c \in BOOLEAN,
                     u \in BOOLEAN, o \in BOOLEAN }
    /\ repo.is_git => repo.exists
    /\ ~repo.is_git => (repo.head = "branch" /\ ~repo.changes /\ ~repo.untracked /\ ~repo.origin)
    /\ backup = NoBackup

\* the call returns the dictionary given
BackupReturns(dictionary) ==
    backup' = [backup EXCEPT !.pc = "returned", !.result = dictionary]

\* auto_backup_session(project_path): the test is_git_repository, outside the
\* try block
AutoBackupSession ==
    /\ backup.pc \in {"idle", "returned", "raised"}
    /\ backup.backups < MaxBackups
    /\ LET started == [NoBackup EXCEPT !.backups = backup.backups + 1]
           is_repo == is_git_repository(repo)
       IN  backup' =
               IF is_repo.raised # "none"
               THEN [started EXCEPT !.pc = "raised", !.result = [raised |-> is_repo.raised]]
               ELSE IF ~is_repo.value
               THEN [started EXCEPT !.pc = "returned",
                                    !.result = [status |-> "error",
                                                backup_completed |-> FALSE]]
               ELSE [started EXCEPT !.pc = "status"]
    /\ UNCHANGED <<fsvars, callvars, cachevars, prefvars, setupvars, repo>>

\* status = self.get_git_status(project_path) and the test for changes; a
\* status without 'is_dirty' raises KeyError, which the except branch turns
\* into the status 'error'
BackupStatus ==
    /\ backup.pc = "status"
    /\ LET status == get_git_status(repo)
       IN  IF status.error
           THEN BackupReturns([status |-> "error", backup_completed |-> FALSE])
           ELSE IF ~status.is_dirty /\ ~status.untracked_files
           THEN BackupReturns([status |-> "no_changes", backup_completed |-> FALSE])
           ELSE backup' = [backup EXCEPT !.pc = "commit", !.status = status]
    /\ UNCHANGED <<fsvars, callvars, cachevars, prefvars, setupvars, repo>>

\* commit_success = self.commit_changes(project_path, commit_msg): everything
\* is added and committed; an exception of the commit is re-raised and ends
\* in the except branch.  Without a remote origin the call returns here.
BackupCommit ==
    /\ backup.pc = "commit"
    /\ \E committed \in BOOLEAN :
          IF committed
          THEN /\ repo' = [repo EXCEPT !.changes = FALSE, !.untracked = FALSE,
                                       !.commits = @ + 1]
               /\ backup' =
                      IF backup.status.has_remote_origin
                      THEN [backup EXCEPT !.pc = "push", !.events = Append(@, "commit")]
                      ELSE [backup EXCEPT !.pc = "returned",
                                          !.events = Append(@, "commit"),
                                          !.result = [status |-> "success",
                                                      pushed_to_remote |-> FALSE,
                                                      backup_completed |-> TRUE]]
          ELSE /\ BackupReturns([status |-> "error", backup_completed |-> FALSE])
               /\ UNCHANGED repo
    /\ UNCHANGED <<fsvars, callvars, cachevars, prefvars, setupvars>>

\* push_success = self.push_to_remote(project_path): a push that fails makes
\* it return False
BackupPush ==
    /\ backup.pc = "push"
    /\ \E pushed \in BOOLEAN :
          /\ repo' = [repo EXCEPT !.pushes = IF pushed THEN @ + 1 ELSE @]
          /\ backup' = [backup EXCEPT !.pc = "returned", !.events = Append(@, "push"),
                                      !.result = [status |-> "success",
                                                  pushed_to_remote |-> pushed,
                                                  backup_completed |-> TRUE]]
    /\ UNCHANGED <<fsvars, callvars, cachevars, prefvars, setupvars>>

\* between two calls the session goes on: files change, the remote is added
Work ==
    /\ backup.pc \in {"returned", "raised"}
    /\ backup.backups < MaxBackups
    /\ repo.exists /\ repo.is_git
    /\ \E c \in BOOLEAN, u \in BOOLEAN, o \in BOOLEAN :
          /\ c \/ u \/ o # repo.origin
          /\ repo' = [repo EXCEPT !.changes = c, !.untracked = u, !.origin = o]
    /\ UNCHANGED <<fsvars, callvars, cachevars, prefvars, setupvars, backup>>

BackupNext ==
    \/ AutoBackupSession
    \/ BackupStatus
    \/ BackupCommit
    \/ BackupPush
    \/ Work

SpecBackup ==
    BackupInit /\ [][BackupNext]_vars

(***************************************************************************)
(* Properties of analyze_project                                           *)
(***************************************************************************)
\* p lies inside a directory whose base name is in ignored_dirs
inside_ignored(p) ==
    \E i \in 1..(Len(p) - 1) : p[i] \in ignored_dirs

\* two trees that differ at most inside directories of ignored_dirs
same_outside_ignored(t1, t2) ==
    {p \in t1 : ~inside_ignored(p)} = {p \in t2 : ~inside_ignored(p)}

\* both the previous call and the current one returned a result
both_returned ==
    pc = "returned" /\ last.outcome = "returned"

\* C1: denylist non-interference.  Two calls on trees that differ only inside
\* directories of ignored_dirs report the same file count, languages, directory
\* depth, complexity, project type and framework scores, and no file inside
\* such a directory is counted.
C1_DenylistNonInterference ==
    /\ (both_returned /\ same_outside_ignored(last.tree, scanned)) =>
           /\ result.files_count = last.result.files_count
           /\ result.structure.stats = last.result.structure.stats
           /\ result.languages = last.result.languages
           /\ result.structure.directories.depth = last.result.structure.directories.depth
           /\ result.complexity = last.result.complexity
           /\ result.type = last.result.type
           /\ result.frameworks_detected = last.result.frameworks_detected
    /\ pc = "returned" =>
           result.files_count =
               Cardinality({p \in scanned : p \in Files /\ ~inside_ignored(p)})

\* C2: a tree holding only node_modules/big_file.js and a root index.html is
\* reported with total_files = 1, and javascript does not come before html in
\* the language list.
C2_IgnoredFileNotCounted ==
    (pc = "returned" /\
     scanned = {<<"node_modules">>, <<"node_modules", "big_file.js">>, <<"index.html">>}) =>
        /\ result.structure.stats.total_files = 1
        /\ result.files_count = 1
        /\ ~\E i, j \in 1..Len(result.languages) :
               i < j /\ result.languages[i] = "javascript" /\ result.languages[j] = "html"

\* the result of a call without the time stamp analyzed_at
classification(r) ==
    [f \in DOMAIN r \ {"analyzed_at"} |-> r[f]]

\* C3: determinism.  Two calls of analyze_project on the same tree return the
\* same result (the time stamp analyzed_at set aside), whatever the order in
\* which the file system enumerates the directory entries.
C3_Deterministic ==
    (both_returned /\ last.tree = scanned) =>
        classification(result) = classification(last.result)

\* the project holds a manifest that json.load cannot parse
malformed_manifest ==
    \E m \in DOMAIN json_files : <<m>> \in scanned /\ ~json_files[m].valid

\* C4: a malformed manifest is never fatal.  A call on a project that holds
\* one raises no parse error to the caller.
C4_MalformedManifestNotFatal ==
    malformed_manifest => ~(pc = "raised" /\ error = "JSONDecodeError")

\* C5: an unreadable file or sub-directory met during the scan is a skip.  A
\* call raises a permission error only when the root path itself is unreadable.
C5_UnreadableEntrySkipped ==
    (pc = "raised" /\ error = "PermissionError") => ~path_readable

\* C6: a missing path fails with a not-found error and an unreadable one with
\* a permission error; the error reaches the caller, nothing is returned and
\* no analysis step runs.
C6_BadPathRaises ==
    /\ ~path_exists =>
           /\ pc \in {"idle", "check", "raised"}
           /\ pc = "raised" => error = "FileNotFoundError"
    /\ (path_exists /\ ~path_readable) =>
           /\ pc \in {"idle", "check", "raised"}
           /\ pc = "raised" => error = "PermissionError"
    /\ ~(path_exists /\ path_readable) =>
           /\ ran = {}
           /\ result = NoResult
           /\ structure = NoStructure /\ framework_info = NoFrameworks /\ languages = <<>>

\* a call on an existing but unreadable path has raised
C6_Witness ==
    /\ path_exists /\ ~path_readable
    /\ pc = "raised" /\ error = "PermissionError"
    /\ calls = MaxCalls /\ last.error = "PermissionError"

\* detect has just run in the current call
framework_detected ==
    pc = "languages"

\* the position of a name in a catalog
position(catalog, x) ==
    CHOOSE i \in 1..Len(catalog) : catalog[i] = x

\* C7: framework primary pick.  No framework scoring 0 is listed; the primary
\* framework has the maximum score and, among the frameworks sharing it, is the
\* one declared first in framework_patterns; primary is 'unknown' exactly when
\* no framework scores above 0.
C7_PrimaryFramework ==
    framework_detected =>
        LET all == framework_info.all
            primary == framework_info.primary
            scored == {Frameworks[i] : i \in 1..Len(Frameworks)}
            score_of == [i \in 1..Len(Frameworks) |->
                            _calculate_framework_score(Frameworks[i])] \o <<>>
            score_at(f) == score_of[position(Frameworks, f)]
            positive == {f \in scored : score_at(f) > 0}
        IN  /\ {all[i][1] : i \in 1..Len(all)} = positive
            /\ Len(all) = Cardinality(positive)
            /\ \A i \in 1..Len(all) : all[i][2] = score_at(all[i][1])
            /\ primary = "unknown" <=> positive = {}
            /\ primary # "unknown" =>
                   /\ primary \in positive
                   /\ \A f \in scored :
                          \/ score_at(f) < score_at(primary)
                          \/ /\ score_at(f) = score_at(primary)
                             /\ position(Frameworks, primary) <= position(Frameworks, f)

\* two frameworks share the maximum score, one of them through its
\* dependencies, and the earlier one is primary
C7_Witness ==
    /\ framework_detected
    /\ Len(framework_info.all) >= 2
    /\ framework_info.all[1][2] = framework_info.all[2][2]
    /\ framework_info.all[1][2] > 3
    /\ framework_info.primary = framework_info.all[1][1]

\* analyze_structure has just run in the current call
type_detected ==
    pc = "framework"

\* C8: project type pick.  The type is the candidate with the highest total
\* score and, among candidates sharing it, the one that comes first in the
\* static candidate list, also when its points come only from the package.json
\* or 'api' directory bonuses; it is 'unknown' exactly when no candidate scores
\* above 0.
C8_ProjectTypePick ==
    type_detected =>
        LET incs == type_increments(structure.directories.root_dirs)
            total(t) == total_of(incs, t)
            candidates == {ProjectTypes[i] : i \in 1..Len(ProjectTypes)}
        IN  /\ structure.type = "unknown" <=> \A t \in candidates : total(t) = 0
            /\ structure.type # "unknown" =>
                   /\ structure.type \in candidates
                   /\ \A t \in candidates :
                          \/ total(t) < total(structure.type)
                          \/ /\ total(t) = total(structure.type)
                             /\ position(ProjectTypes, structure.type)
                                    <= position(ProjectTypes, t)

(***************************************************************************)
(* _calculate_ce_score as a function of its arguments: the call is taken   *)
(* up at the scoring step with every value the arguments may have,         *)
(* including issue lists longer than _analyze_existing_ce produces.        *)
(***************************************************************************)
\* issues of the longest list handed to _calculate_ce_score
MaxIssues ==
    12

ScoreInit ==
    /\ path_exists = TRUE
    /\ path_readable = TRUE
    /\ tree \in {{}, {<<"CLAUDE.md">>}}
    /\ json_files = <<>>
    /\ text_files = <<>>
    /\ claude_md = IF <<"CLAUDE.md">> \in tree THEN 100 ELSE 0
    /\ unreadable = {}
    /\ debug_log = 0
    /\ pc = "score"
    /\ calls = 1
    /\ ran = {"structure", "framework", "languages", "ce"}
    /\ structure \in {[analyze_structure(<<>>) EXCEPT !.complexity = ComplexityLevels[i]] :
                         i \in 1..Len(ComplexityLevels)}
    /\ framework_info \in
           {[primary |-> "unknown", all |-> <<>>, confidence_scores |-> <<>>]} \cup
           {[primary |-> Frameworks[i], all |-> << <<Frameworks[i], 3>> >>,
             confidence_scores |-> << <<Frameworks[i], "low">> >>] :
                i \in 1..Len(Frameworks)}
    /\ languages = <<>>
    /\ ce_analysis \in {[issues |-> [i \in 1..n |-> "CLAUDE.md troppo breve"],
                         suggestions |-> <<>>] : n \in 0..MaxIssues}
    /\ score = 0
    /\ result = NoResult
    /\ error = "none"
    /\ last = NoCall
    /\ scanned = tree
    /\ StoresIdle

ScoreNext ==
    \/ CalculateScore
    \/ BuildResult

SpecScore ==
    ScoreInit /\ [][ScoreNext]_vars

\* twice the raw score _calculate_ce_score works with, from the arguments of
\* the current call
raw_halves ==
    2 * 5
    + (IF <<"CLAUDE.md">> \in scanned THEN 2 * 2 ELSE 0)
    + (IF structure.complexity = "low" THEN 2
       ELSE IF structure.complexity = "high" THEN -2 ELSE 0)
    + (IF framework_info.primary # "unknown" THEN 2 ELSE 0)
    - Len(ce_analysis.issues)

\* t is the raw score with its fraction dropped
truncates(t, halves) ==
    IF halves >= 0 THEN 2 * t <= halves /\ halves < 2 * t + 2
    ELSE 2 * t >= halves /\ halves > 2 * t - 2

\* C9: readiness score.  The score is max(1, min(10, trunc(raw))) with raw = 5,
\* +2 when CLAUDE.md exists, +1 for low and -1 for high complexity, +1 when the
\* primary framework is known, -0.5 per issue; the fraction is dropped, not
\* rounded, and the stored score is an integer in 1..10.
C9_ReadinessScore ==
    pc \in {"result", "returned"} =>
        /\ score \in 1..10
        /\ \E t \in -20..20 :
               /\ truncates(t, raw_halves)
               /\ score = (IF t > 10 THEN 10 ELSE IF t < 1 THEN 1 ELSE t)
        /\ pc = "returned" => result.ce_score = score

\* a raw score of 6.5 has been stored as 6
C9_Witness ==
    /\ pc = "returned"
    /\ raw_halves = 13
    /\ result.ce_score = 6

\* detect_languages has just run in the current call
languages_detected ==
    pc = "ce"

\* the files of the scan whose extension belongs to language l
files_of_language(l) ==
    {p \in rglob :
        /\ is_file(p) /\ ~_is_ignored_file(p)
        /\ \E i \in 1..Len(language_extensions[l]) :
               language_extensions[l][i] = get_file_extension(p)}

\* C10: language identification.  detect_languages returns exactly the
\* languages of the table with at least one counted file, by descending file
\* count, languages with equal counts in the order of the table.
C10_LanguageOrder ==
    languages_detected =>
        LET table == {Languages[i] : i \in 1..Len(Languages)}
            count_of == [i \in 1..Len(Languages) |->
                            Cardinality(files_of_language(Languages[i]))] \o <<>>
            count(l) == count_of[position(Languages, l)]
        IN  /\ {languages[i] : i \in 1..Len(languages)} = {l \in table : count(l) > 0}
            /\ \A i, j \in 1..Len(languages) :
                   i < j =>
                       \/ count(languages[i]) > count(languages[j])
                       \/ /\ count(languages[i]) = count(languages[j])
                          /\ position(Languages, languages[i]) < position(Languages, languages[j])

\* a language declared late comes first because it has more files, followed by
\* two languages with equal counts in table order
C10_Witness ==
    /\ languages_detected
    /\ Len(languages) >= 3
    /\ Cardinality(files_of_language(languages[1])) > Cardinality(files_of_language(languages[2]))
    /\ position(Languages, languages[1]) > position(Languages, languages[2])
    /\ Cardinality(files_of_language(languages[2])) = Cardinality(files_of_language(languages[3]))

(***************************************************************************)
(* _analyze_complexity as a function of its arguments: analyze_structure   *)
(* is taken up where it calls _analyze_complexity, with file counts on     *)
(* both sides of every threshold, every depth up to MaxDepth and root      *)
(* directories that match complexity indicators.                           *)
(***************************************************************************)
\* the deepest directory nesting handed to _analyze_complexity
MaxDepth ==
    9

\* stats['total_files'] on either side of the thresholds
FileCounts ==
    {0, 20, 21, 100, 101, 1000, 1001}

\* the root directories of the projects scored, in the order rglob yields them
IndicatorDirs ==
    <<"microservices", "kubernetes", "tests", "docs", "config">>

\* the members of a catalog that are in S, in catalog order
Among(catalog, S) ==
    LET member(x) == x \in S IN SelectSeq(catalog, member)

\* every variable but tree, structure, framework_info and pc, as a call that
\* found a readable project leaves them
Midcall ==
    /\ path_exists = TRUE
    /\ path_readable = TRUE
    /\ json_files = <<>>
    /\ text_files = <<>>
    /\ claude_md = 0
    /\ unreadable = {}
    /\ debug_log = 0
    /\ calls = 1
    /\ ran = {}
    /\ languages = <<>>
    /\ ce_analysis = NoAnalysis
    /\ score = 0
    /\ result = NoResult
    /\ error = "none"
    /\ last = NoCall
    /\ scanned = tree
    /\ StoresIdle

ComplexityInit ==
    /\ tree \in {{}, {<<"docker-compose.yml">>}}
    /\ Midcall
    /\ framework_info = NoFrameworks
    /\ pc = "complexity"
    /\ structure \in
           {[ directories |-> [ root_dirs |-> Among(IndicatorDirs, S),
                                src_structure |-> <<>>, test_structure |-> <<>>,
                                config_structure |-> <<>>, depth |-> d ],
              stats |-> [total_files |-> n, directories |-> Cardinality(S),
                         extensions |-> <<>>] ] :
                S \in SUBSET {IndicatorDirs[i] : i \in 1..Len(IndicatorDirs)},
                d \in 0..MaxDepth, n \in FileCounts}

\* complexity = self._analyze_complexity(project_path, directories, stats)
AnalyzeComplexity ==
    /\ pc = "complexity"
    /\ structure' = [ directories |-> structure.directories,
                      stats |-> structure.stats,
                      complexity |-> _analyze_complexity(structure.directories,
                                                         structure.stats) ]
    /\ pc' = "complexity done"
    /\ UNCHANGED <<storevars, fsvars, calls, ran, framework_info, languages, ce_analysis, score,
                   result, error, last, scanned, debug_log>>

SpecComplexity ==
    ComplexityInit /\ [][AnalyzeComplexity]_vars

\* the indicators of one level that the project matches: a directory indicator
\* by a root directory whose name contains it, a file indicator by existing
matched_indicators(level) ==
    LET inds == complexity_indicators[level]
        roots == structure.directories.root_dirs
    IN  {i \in 1..Len(inds) :
            IF endswith(Chars[inds[i]], "/")
            THEN \E j \in 1..Len(roots) :
                     Contains(Chars[roots[j]], rstrip(Chars[inds[i]], "/"))
            ELSE exists(inds[i])}

\* the score the complexity rules give the project of the current call
expected_complexity_score ==
    LET n == structure.stats.total_files
        d == structure.directories.depth
    IN  (IF n >= 1001 THEN 3 ELSE IF n >= 101 THEN 2 ELSE IF n >= 21 THEN 1 ELSE 0)
        + (IF d >= 9 THEN 3 ELSE IF d >= 6 THEN 2 ELSE IF d >= 4 THEN 1 ELSE 0)
        + 3 * Cardinality(matched_indicators("high"))
        + 2 * Cardinality(matched_indicators("medium"))

\* C11: complexity.  The score is one of +3/+2/+1 for more than 1000/100/20
\* files, one of +3/+2/+1 for a depth above 8/5/3, +3 per matched high and +2
\* per matched medium indicator; the level is high from 8, medium from 4, else
\* low.  Exactly 1000 (100, 20) files earn the bonus of the band below.
C11_ComplexityLevel ==
    pc = "complexity done" =>
        structure.complexity =
            (IF expected_complexity_score >= 8 THEN "high"
             ELSE IF expected_complexity_score >= 4 THEN "medium"
             ELSE "low")

\* exactly 1000 files earn +2, which leaves the project at 7 and medium
C11_Witness ==
    /\ pc = "complexity done"
    /\ structure.stats.total_files = 1000
    /\ expected_complexity_score = 7
    /\ structure.complexity = "medium"

(***************************************************************************)
(* _analyze_architecture as a function of the root directories:            *)
(* analyze_structure is taken up where it calls _analyze_architecture,     *)
(* with every combination of the directories below.                        *)
(***************************************************************************)
\* root directories that the architecture rules look for, one of them
\* capitalised, three of them holding a layer name inside a longer name
ArchitectureDirs ==
    <<"Models", "views", "controllers", "user_controller", "user_service",
      "user_repository", "modules", "components", "features", "services",
      "microservices">>

ArchitectureInit ==
    /\ tree = {}
    /\ Midcall
    /\ framework_info = NoFrameworks
    /\ pc = "architecture"
    /\ structure \in
           {[ directories |-> [ root_dirs |-> Among(ArchitectureDirs, S),
                                src_structure |-> <<>>, test_structure |-> <<>>,
                                config_structure |-> <<>>, depth |-> 1 ] ] :
                S \in SUBSET {ArchitectureDirs[i] : i \in 1..Len(ArchitectureDirs)}}

\* architecture = self._analyze_architecture(project_path, directories)
AnalyzeArchitecture ==
    /\ pc = "architecture"
    /\ structure' = [ directories |-> structure.directories,
                      architecture |-> _analyze_architecture(structure.directories) ]
    /\ pc' = "architecture done"
    /\ UNCHANGED <<storevars, fsvars, calls, ran, framework_info, languages, ce_analysis, score,
                   result, error, last, scanned, debug_log>>

SpecArchitecture ==
    ArchitectureInit /\ [][AnalyzeArchitecture]_vars

\* the architecture rules in their order, each with whether the root
\* directories of the current call match it
architecture_rules ==
    LET roots == structure.directories.root_dirs
        names == {lower(Chars[roots[i]]) : i \in 1..Len(roots)}
        joined == join([i \in 1..Len(roots) |-> lower(Chars[roots[i]])], <<" ">>)
    IN  << <<"mvc", {Chars["models"], Chars["views"], Chars["controllers"]} \subseteq names>>,
           <<"layered", /\ Contains(joined, Chars["controller"])
                        /\ Contains(joined, Chars["service"])
                        /\ Contains(joined, Chars["repository"])>>,
           <<"modular", {Chars["modules"], Chars["components"], Chars["features"]}
                            \cap names # {}>>,
           <<"microservices", {Chars["services"], Chars["microservices"]} \cap names # {}>> >>

\* C12: architecture pattern.  The pattern returned is that of the first
\* matching rule in the order mvc, layered, modular, microservices, and
\* unknown when no rule matches; a later matching rule never overrides it.
C12_ArchitecturePattern ==
    pc = "architecture done" =>
        LET rules == architecture_rules
            pattern == structure.architecture.pattern
        IN  /\ pattern \in {"mvc", "layered", "modular", "microservices", "unknown"}
            /\ pattern = "unknown" <=> \A i \in 1..Len(rules) : ~rules[i][2]
            /\ \A i \in 1..Len(rules) :
                   (rules[i][2] /\ \A j \in 1..(i - 1) : ~rules[j][2]) =>
                       pattern = rules[i][1]

\* all four rules match (Models among the root directories) and mvc is returned
C12_Witness ==
    /\ pc = "architecture done"
    /\ \A i \in 1..Len(architecture_rules) : architecture_rules[i][2]
    /\ \E i \in 1..Len(structure.directories.root_dirs) :
           structure.directories.root_dirs[i] = "Models"
    /\ structure.architecture.pattern = "mvc"

(***************************************************************************)
(* Properties of the framework scores                                      *)
(***************************************************************************)
\* the score detect has reported for a framework, 0 when it is not listed
reported_score(f) ==
    LET all == framework_info.all
        at == {i \in 1..Len(all) : all[i][1] = f}
    IN  IF at = {} THEN 0 ELSE all[CHOOSE i \in at : TRUE][2]

\* the marker files and the config files of a framework that exist
marker_files_present(f) ==
    {i \in 1..Len(framework_patterns[f].files) : exists(framework_patterns[f].files[i])}
config_files_present(f) ==
    {i \in 1..Len(framework_patterns[f].config_files) :
        exists(framework_patterns[f].config_files[i])}

\* the manifests of the project
manifests_present ==
    {m \in {"package.json", "composer.json", "requirements.txt", "Cargo.toml"} : exists(m)}

\* the declared dependencies of a framework found in a manifest, as pairs of
\* manifest and dependency
dependencies_in_manifests(f) ==
    {<<m, i>> \in manifests_present \X (1..Len(framework_patterns[f].dependencies)) :
        Chars[framework_patterns[f].dependencies[i]] \in _extract_dependencies(m)}

\* the patterns of a framework that match, as regular expressions, the text
\* of some source file under 1 MiB
content_patterns_matched(f) ==
    {i \in 1..Len(framework_patterns[f].patterns) :
        \E p \in rglob :
            /\ is_file(p) /\ p \notin unreadable
            /\ StrOf(suffix(name(p))) \in
                   {".js", ".jsx", ".ts", ".tsx", ".py", ".php", ".vue", ".svelte"}
            /\ st_size(p) < 1048576
            /\ framework_patterns[f].patterns[i] \in RegexMatches(p)}

\* C13: framework content patterns.  A framework's score includes +2 for each
\* of its content patterns exactly when some source file (.js, .jsx, .ts,
\* .tsx, .py, .php, .vue, .svelte) under 1 MiB has text matching the pattern
\* as a regular expression, once per pattern.
C13_ContentPatterns ==
    framework_detected =>
        \A n \in 1..Len(Frameworks) :
            LET f == Frameworks[n]
            IN  reported_score(f) =
                    3 * Cardinality(marker_files_present(f))
                    + 5 * Cardinality(dependencies_in_manifests(f))
                    + 2 * Cardinality(content_patterns_matched(f))
                    + 2 * Cardinality(config_files_present(f))

\* projects that hold up to two manifests
ManifestTrees ==
    SUBSET {<<"package.json">>, <<"composer.json">>}

ManifestInit ==
    ProjectInit(ManifestTrees)

SpecManifests ==
    ManifestInit /\ [][Scan]_vars

\* the declared dependencies of a framework found in some manifest
dependency_names_found(f) ==
    {i \in 1..Len(framework_patterns[f].dependencies) :
        \E m \in manifests_present :
            Chars[framework_patterns[f].dependencies[i]] \in _extract_dependencies(m)}

\* the patterns of a framework that _find_pattern_in_project finds
patterns_found(f) ==
    {i \in 1..Len(framework_patterns[f].patterns) :
        _find_pattern_in_project(framework_patterns[f].patterns[i])}

\* C14: framework score.  A framework's score is 3 x its marker files present
\* + 5 x its declared dependency names found in the project's manifests, each
\* name counted once, + 2 x its patterns matched + 2 x its config files
\* present.
C14_FrameworkScore ==
    framework_detected =>
        \A n \in 1..Len(Frameworks) :
            LET f == Frameworks[n]
            IN  reported_score(f) =
                    3 * Cardinality(marker_files_present(f))
                    + 5 * Cardinality(dependency_names_found(f))
                    + 2 * Cardinality(patterns_found(f))
                    + 2 * Cardinality(config_files_present(f))

(***************************************************************************)
(* Project type scoring (_detect_project_type) on projects whose root      *)
(* directory names contain the name of an indicator without being it.      *)
(***************************************************************************)
TypeTrees ==
    SUBSET {<<"datasets">>, <<"README.md">>, <<"package.json">>, <<"lib">>}

TypeInit ==
    ProjectInit(TypeTrees)

SpecTypes ==
    TypeInit /\ [][Scan]_vars

\* the total _detect_project_type holds for type t when it picks the type
reported_type_score(t) ==
    total_of(type_increments(structure.directories.root_dirs), t)

\* the directory indicators of type t for which a root directory of that name exists
directory_indicators_present(t) ==
    LET inds == project_indicators[t]
        root_dirs == structure.directories.root_dirs
    IN  {i \in 1..Len(inds) :
            /\ endswith(Chars[inds[i]], "/")
            /\ \E j \in 1..Len(root_dirs) :
                   Chars[root_dirs[j]] = rstrip(Chars[inds[i]], "/")}

\* the glob indicators of type t (*.ext) that match the name of some file in the tree
glob_indicators_matched(t) ==
    LET inds == project_indicators[t]
        is_glob(ind) == ~endswith(ind, "/") /\ \E k \in 1..Len(ind) : ind[k] = "*"
    IN  {i \in 1..Len(inds) :
            /\ is_glob(Chars[inds[i]])
            /\ \E f \in rglob :
                   /\ is_file(f)
                   /\ LET file_name == name(f)
                          ext == Tail(Chars[inds[i]])
                      IN  /\ Len(file_name) >= Len(ext)
                          /\ SubSeq(file_name, Len(file_name) - Len(ext) + 1,
                                    Len(file_name)) = ext}

\* the file indicators of type t that exist at the project root
file_indicators_present(t) ==
    LET inds == project_indicators[t]
        is_plain(ind) == ~endswith(ind, "/") /\ \A k \in 1..Len(ind) : ind[k] # "*"
    IN  {i \in 1..Len(inds) : is_plain(Chars[inds[i]]) /\ exists(inds[i])}

\* the bonus of type t from the combined dependencies of package.json
package_bonus(t) ==
    LET wanted == IF t = "web" THEN {"react", "vue", "angular", "svelte"}
                  ELSE IF t = "api" THEN {"express", "koa", "fastify"}
                  ELSE IF t = "desktop" THEN {"electron", "tauri"}
                  ELSE {}
    IN  IF package_deps \cap wanted # {} THEN 3 ELSE 0

\* the bonus of api from a root directory whose name contains 'api'
api_bonus(t) ==
    LET root_dirs == structure.directories.root_dirs
    IN  IF /\ t = "api"
           /\ \E j \in 1..Len(root_dirs) :
                  Contains(lower(Chars[root_dirs[j]]), Chars["api"])
        THEN 2 ELSE 0

\* C15: project type scoring.  Each candidate type's total is +2 for each of
\* its directory indicators for which a root directory of that name exists, +1
\* for each of its glob indicators that matches some file in the tree, +3 for
\* each of its file indicators that exists at the project root, +3 to web, api
\* or desktop from the dependencies of package.json, +2 to api when a root
\* directory name contains 'api' case-insensitively, and nothing else.
C15_ProjectTypeScore ==
    type_detected =>
        \A n \in 1..Len(ProjectTypes) :
            LET t == ProjectTypes[n]
            IN  reported_type_score(t) =
                    2 * Cardinality(directory_indicators_present(t))
                    + Cardinality(glob_indicators_matched(t))
                    + 3 * Cardinality(file_indicators_present(t))
                    + package_bonus(t)
                    + api_bonus(t)

(***************************************************************************)
(* The confidence tier (_calculate_confidence) of every score up to        *)
(* MaxScore, for one detected framework.                                   *)
(***************************************************************************)
MaxScore ==
    20

ConfidenceInit ==
    /\ tree = {}
    /\ Midcall
    /\ structure = NoStructure
    /\ pc = "confidence"
    /\ framework_info \in
           {[ all |-> << <<Frameworks[n], s>> >> ] : n \in 1..3, s \in 1..MaxScore}

\* confidence_scores[framework] = self._calculate_confidence(score)
AssignConfidence ==
    /\ pc = "confidence"
    /\ framework_info' =
           [ all |-> framework_info.all,
             confidence_scores |->
                 [i \in 1..Len(framework_info.all) |->
                     <<framework_info.all[i][1],
                       _calculate_confidence(framework_info.all[i][2])>>] ]
    /\ pc' = "confidence done"
    /\ UNCHANGED <<storevars, fsvars, calls, ran, structure, languages, ce_analysis, score,
                   result, error, last, scanned, debug_log>>

SpecConfidence ==
    ConfidenceInit /\ [][AssignConfidence]_vars

\* the detected frameworks have their tiers
tiers_assigned ==
    pc \in {"languages", "confidence done"}

\* the tier the thresholds 10, 7, 4 and 2 give a score
tier_of(s) ==
    CASE s >= 10 -> "very_high"
      [] s >= 7 /\ s < 10 -> "high"
      [] s >= 4 /\ s < 7 -> "medium"
      [] s >= 2 /\ s < 4 -> "low"
      [] OTHER -> "very_low"

\* the <<score, tier>> pairs reported for the detected frameworks
reported_tiers ==
    {<<reported_score(framework_info.confidence_scores[i][1]),
       framework_info.confidence_scores[i][2]>> :
        i \in 1..Len(framework_info.confidence_scores)}

\* C16: confidence tier.  Every detected framework has a tier, and it is
\* very_high when its score is at least 10, high when at least 7, medium when
\* at least 4, low when at least 2, and very_low otherwise.
C16_ConfidenceTier ==
    tiers_assigned =>
        /\ {framework_info.confidence_scores[i][1] :
               i \in 1..Len(framework_info.confidence_scores)}
           = {framework_info.all[i][1] : i \in 1..Len(framework_info.all)}
        /\ \A st \in reported_tiers : st[2] = tier_of(st[1])

\* a framework scoring exactly 7, the lowest score of the tier high, has its tier
C16_Witness ==
    /\ tiers_assigned
    /\ <<7, "high">> \in reported_tiers

\* the names of the detected frameworks, and the modern ones among them
detected_names ==
    {framework_info.all[i][1] : i \in 1..Len(framework_info.all)}
detected_modern ==
    detected_names \cap modern_frameworks

\* r is 10 * k / n rounded to a nearest integer
is_rounded(r, k, n) ==
    /\ 2 * (10 * k - r * n) <= n
    /\ 2 * (r * n - 10 * k) <= n

\* C17: modern score.  For every set of detected frameworks modern_score equals
\* round(10 x |detected /\ modern-set| / |detected|), and equals 5 when no
\* framework is detected.
C17_ModernScore ==
    framework_detected =>
        IF detected_names = {}
        THEN framework_info.tech_stack.modern_score = 5
        ELSE is_rounded(framework_info.tech_stack.modern_score,
                        Cardinality(detected_modern), Cardinality(detected_names))

(***************************************************************************)
(* Projects holding a dotfile and a dot-directory.                         *)
(***************************************************************************)
DotTrees ==
    {t \in SUBSET {<<".github">>, <<".github", "ci.py">>, <<".eslintrc.js">>,
                   <<"README.md">>} : IsTree(t)}

DotInit ==
    ProjectInit(DotTrees)

SpecDotfiles ==
    DotInit /\ [][Scan]_vars

\* an entry whose name starts with '.', or that lies under a directory whose
\* name does
dot_entry(p) ==
    \E i \in 1..Len(p) : startswith(Chars[p[i]], ".")

\* the files of the project that are not dot entries
plain_files ==
    {p \in tree : is_file(p) /\ ~dot_entry(p)}

\* C18: dotfile exclusion.  Files whose name starts with '.' and all entries
\* under dot-directories are excluded from the total file count, from the
\* per-extension counts (those of the statistics and those the languages are
\* detected from) and from the directory list used for classification.
C18_DotfilesExcluded ==
    languages_detected =>
        /\ structure.stats.total_files <= Cardinality(plain_files)
        /\ \A e \in DOMAIN structure.stats.extensions :
               structure.stats.extensions[e]
                   <= Cardinality({p \in plain_files : get_file_extension(p) = e})
        /\ \A i \in 1..Len(languages) :
               \E p \in plain_files :
                   \E k \in 1..Len(language_extensions[languages[i]]) :
                       get_file_extension(p) = language_extensions[languages[i]][k]
        /\ \A i \in 1..Len(structure.directories.root_dirs) :
               ~startswith(Chars[structure.directories.root_dirs[i]], ".")

\* scenario A: the project holds a package.json that declares react as a
\* dependency, a src/ folder and the .jsx file src/App.jsx
scenario_A ==
    /\ {<<"package.json">>, <<"src">>, <<"src", "App.jsx">>} \subseteq scanned
    /\ json_files["package.json"].valid
    /\ "react" \in json_files["package.json"].deps

\* C19: end-to-end scenario A.  A directory with a package.json declaring react
\* as a dependency, a src/ folder and one .jsx file is analysed as project type
\* web with primary framework react, and its language list includes javascript.
C19_ScenarioA ==
    (pc = "returned" /\ scenario_A) =>
        /\ result.type = "web"
        /\ result.framework = "react"
        /\ \E i \in 1..Len(result.languages) : result.languages[i] = "javascript"

\* the analysis of a project that holds exactly the entries of scenario A returned
C19_Witness ==
    /\ pc = "returned"
    /\ scenario_A
    /\ scanned = {<<"package.json">>, <<"src">>, <<"src", "App.jsx">>}
    /\ result.type = "web"
    /\ result.framework = "react"
    /\ result.languages = <<"javascript", "json">>

\* the analysis of an existing, readable and empty directory returned
empty_directory_analysed ==
    /\ pc = "returned"
    /\ path_exists
    /\ path_readable
    /\ scanned = {}

\* C20: empty directory.  Analysing an empty directory yields project type
\* unknown, complexity low, no framework with a nonzero score (primary
\* framework unknown), architecture pattern unknown, and readiness score 5.
C20_EmptyDirectory ==
    empty_directory_analysed =>
        /\ result.type = "unknown"
        /\ result.complexity = "low"
        /\ result.frameworks_detected = <<>>
        /\ result.framework = "unknown"
        /\ result.structure.architecture.pattern = "unknown"
        /\ result.ce_score = 5

\* an empty directory was analysed: no file counted, the rules file reported
\* missing
C20_Witness ==
    /\ empty_directory_analysed
    /\ result.files_count = 0
    /\ Len(result.issues) = 1
    /\ result.ce_score = 5

(***************************************************************************)
(* Claims about the effects of a call, the remaining parsers and the       *)
(* stores.                                                                 *)
(***************************************************************************)
\* C21: analysis is read-only.  For every analyze_project call, whether it
\* succeeds or fails, no file or directory is created, modified or deleted:
\* every step of a call leaves the project and the debug log as they were.
C21_ReadOnly ==
    [][Scan => UNCHANGED <<fsvars, debug_log>>]_vars

(***************************************************************************)
(* Projects holding a requirements.txt of one line.                        *)
(***************************************************************************)
RequirementsTrees ==
    {{<<"requirements.txt">>}}

RequirementsInit ==
    ProjectInit(RequirementsTrees)

SpecRequirements ==
    RequirementsInit /\ [][Scan]_vars

\* the package name a requirements.txt line starts with: everything before
\* the version specifier and the space in front of it
package_of(line) ==
    UpTo(line, {" ", "=", "<", ">", "!", "~"})

\* the frameworks whose declared dependency is the package of the line
frameworks_required ==
    {f \in {Frameworks[n] : n \in 1..Len(Frameworks)} :
        \E i \in 1..Len(framework_patterns[f].dependencies) :
            Chars[framework_patterns[f].dependencies[i]]
                = package_of(text_files["requirements.txt"][1])}

\* C22: requirements.txt parsing.  For every line made of a package name and a
\* version specifier (==, >=, <=, !=, ~=, <, >) the extracted dependency name
\* is the package name, so the framework that declares the package receives
\* its +5 dependency score next to its marker, pattern and config file points.
C22_RequirementsParsing ==
    (framework_detected /\ <<"requirements.txt">> \in tree) =>
        \A f \in frameworks_required :
            reported_score(f) =
                3 * Cardinality(marker_files_present(f))
                + 5
                + 2 * Cardinality(patterns_found(f))
                + 2 * Cardinality(config_files_present(f))

\* the entry of the cache under the key of the last operation, <<>> when there
\* is none
entry_asked ==
    LET at == key_position(mcp_responses, cached.key)
    IN  IF at = 0 THEN <<>> ELSE <<mcp_responses[at]>>

\* C23: get_cached_mcp_response(endpoint, query, max_age_hours) returns the
\* response stored by cache_mcp_response for the same endpoint and query when
\* that entry exists and is not older than max_age_hours, returns None
\* otherwise, and never raises.
C23_CachedResponse ==
    cached.op = "get" =>
        /\ cached.got.outcome = "returned"
        /\ cached.got.value =
               IF /\ entry_asked # <<>>
                  /\ entry_asked[1].timestamp >= now - cached.max_age_hours
               THEN entry_asked[1].response
               ELSE "None"

\* the entries of the cache, and those the last insertion started from with
\* the inserted entry in the place of the one it replaced
kept_entries ==
    {mcp_responses[i] : i \in 1..Len(mcp_responses)}
candidate_entries ==
    {cached.before[i] : i \in {k \in 1..Len(cached.before) :
                                  cached.before[k].key # cached.key}}
    \cup {e \in kept_entries : e.key = cached.key}
    \cup {[key |-> cached.key, timestamp |-> now]}

\* the last insertion made the cache exceed MaxCacheEntries
exceeded ==
    /\ cached.op = "cache"
    /\ Len(cached.before) = MaxCacheEntries
    /\ key_position(cached.before, cached.key) = 0

\* the cache holds at most 100 entries; an insertion that makes it exceed 100
\* cuts it to the 50 entries with the newest timestamps, any other insertion
\* drops nothing
cache_bounded ==
    /\ Len(mcp_responses) <= MaxCacheEntries
    /\ exceeded =>
           /\ Len(mcp_responses) = KeptCacheEntries
           /\ \A k \in kept_entries :
                  \A d \in candidate_entries :
                      (\A e \in kept_entries : e.key # d.key) => d.timestamp <= k.timestamp
    /\ (cached.op = "cache" /\ ~exceeded) =>
           \A i \in 1..Len(cached.before) :
               key_position(mcp_responses, cached.before[i].key) # 0

\* the entry just inserted is in the cache, with the response and the
\* timestamp of the insertion
inserted_retained ==
    LET at == key_position(mcp_responses, cached.key)
    IN  /\ at # 0
        /\ mcp_responses[at].response = cached.ops
        /\ mcp_responses[at].timestamp = now

RangeTrees ==
    SUBSET { <<"CLAUDE.md">>, <<"package.json">>, <<"docker-compose.yml">>,
             <<"microservices">>, <<"kubernetes">>, <<"tests">> }

RangeInit ==
    ProjectInit(RangeTrees)

SpecRange ==
    RangeInit /\ [][Scan]_vars

\* the issues of the current call contain text
reports(text) ==
    \E i \in 1..Len(ce_analysis.issues) : ce_analysis.issues[i] = text

\* C24: reachable readiness range.  For every project the number of detected
\* issues is 0 or 1 ("CLAUDE.md mancante" and "CLAUDE.md troppo breve" exclude
\* each other, and the +2 bonus never meets "CLAUDE.md mancante"), so the raw
\* score lies in [3.5, 9], the returned score lies in 3..9, and the clamp to
\* 1..10 leaves the truncated raw score as it is.
C24_ReachableRange ==
    pc \in {"result", "returned"} =>
        /\ Len(ce_analysis.issues) \in {0, 1}
        /\ ~(reports("CLAUDE.md mancante") /\ reports("CLAUDE.md troppo breve"))
        /\ ~(reports("CLAUDE.md mancante") /\ <<"CLAUDE.md">> \in scanned)
        /\ 7 <= raw_halves /\ raw_halves <= 18
        /\ score \in 3..9
        /\ score = int_of_halves(raw_halves)
        /\ pc = "returned" => result.ce_score = score

\* the lowest score has been returned: no CLAUDE.md, high complexity, no
\* framework, one issue, raw score 3.5
C24_Witness ==
    /\ pc = "returned"
    /\ raw_halves = 7
    /\ reports("CLAUDE.md mancante")
    /\ result.ce_score = 3

\* the highest score has been returned: raw score 9 without issues
C24_WitnessHighest ==
    /\ pc = "returned"
    /\ raw_halves = 18
    /\ ce_analysis.issues = <<>>
    /\ result.ce_score = 9

\* detect has run in the current call
frameworks_detected ==
    "framework" \in ran /\ pc # "raised"

\* C25: every framework detect reports has a score of at least 2 (the scores
\* are sums of contributions of 3, 5 and 2, so 1 cannot occur), and therefore
\* none has the confidence tier very_low.
C25_ScoreAtLeastTwo ==
    frameworks_detected =>
        /\ \A i \in 1..Len(framework_info.all) : framework_info.all[i][2] >= 2
        /\ \A i \in 1..Len(framework_info.confidence_scores) :
               framework_info.confidence_scores[i][2] # "very_low"

\* a framework has been reported with the score 2 and the tier low
C25_Witness ==
    /\ frameworks_detected
    /\ \E i \in 1..Len(framework_info.all) : framework_info.all[i][2] = 2
    /\ \E i \in 1..Len(framework_info.confidence_scores) :
           framework_info.confidence_scores[i][2] = "low"

(***************************************************************************)
(* A project that grows between two calls: a file or a directory is added  *)
(* and nothing else changes.                                               *)
(***************************************************************************)
\* the last of the 21 files of the library
LastBulkFile ==
    <<"lib", "lib", "lib", "requirements.txt">>

\* the projects before they grow: the library short of one file, with or
\* without a fourth level, a tests and a docs directory
GrowthTrees ==
    { ((BulkDirs \cup BulkFiles) \ {LastBulkFile}) \cup extra :
        extra \in SUBSET {DeepDir, <<"tests">>, <<"docs">>} }

\* the entries a project may gain
GrowthEntries ==
    { LastBulkFile, DeepDir, <<"tests">>, <<"docs">>, <<"docker-compose.yml">>,
      <<"microservices">> }

GrowthInit ==
    ProjectInit(GrowthTrees)

\* after the first call one file or one directory is added to the project
AddEntry ==
    /\ pc \in {"returned", "raised"}
    /\ calls = 1
    /\ calls < MaxCalls
    /\ tree = scanned
    /\ \E p \in GrowthEntries \ tree :
          /\ tree' = tree \cup {p}
          /\ IsTree(tree')
    /\ UNCHANGED <<storevars, path_exists, path_readable, json_files, text_files, claude_md,
                   unreadable, callvars>>

GrowthNext ==
    \/ Scan
    \/ AddEntry

SpecGrowth ==
    GrowthInit /\ [][GrowthNext]_vars

\* the position of a complexity level in the order low < medium < high
level_rank(level) ==
    IF level = "low" THEN 1 ELSE IF level = "medium" THEN 2 ELSE 3

\* the current call and the call before it both returned, and the project
\* scanned now is the one scanned before plus one entry
grown_by_one ==
    /\ pc = "returned"
    /\ last.outcome = "returned"
    /\ last.tree \subseteq scanned
    /\ Cardinality(scanned \ last.tree) = 1

\* C26: complexity is monotone.  Adding a file or a directory to a project,
\* everything else unchanged, never lowers the complexity level in the order
\* low < medium < high.
C26_ComplexityMonotone ==
    grown_by_one =>
        level_rank(last.result.complexity) <= level_rank(result.complexity)

\* the 21st file has raised a project from low to medium
C26_Witness ==
    /\ grown_by_one
    /\ scanned \ last.tree = {LastBulkFile}
    /\ last.result.complexity = "low"
    /\ result.complexity = "medium"

\* a docs directory has raised a project from low to medium
C26_WitnessDirectory ==
    /\ grown_by_one
    /\ scanned \ last.tree = {<<"docs">>}
    /\ last.result.complexity = "low"
    /\ result.complexity = "medium"

RECURSIVE stored_paths(_)
\* the key paths under which a value is stored in a dictionary
stored_paths(value) ==
    IF value.type # "dict" THEN {}
    ELSE UNION { {<<k>>} \cup {<<k>> \o p : p \in stored_paths(value.items[k])} :
                    k \in DOMAIN value.items }

\* p is a prefix of q
is_prefix(p, q) ==
    Len(p) <= Len(q) /\ SubSeq(q, 1, Len(p)) = p

\* get_preference(key) has just been called right after set_preference(key, value)
got_after_set ==
    pref.op = "get" /\ pref.after.op = "set" /\ pref.after.key = pref.key

\* the preferences stored before the last set_preference under keys that are
\* neither a prefix nor an extension of its key
unrelated_paths ==
    {p \in stored_paths(pref.before) :
        LET keys == split(Chars[pref.key], ".")
        IN  ~is_prefix(p, keys) /\ ~is_prefix(keys, p)}

\* C28: preferences round-trip.  After set_preference(key, value) a following
\* get_preference(key) returns value, and the preferences stored under keys
\* that are neither a prefix nor an extension of key are unchanged, whatever
\* the store holds (an intermediate segment that is not a dictionary included).
C28_PreferencesRoundTrip ==
    /\ got_after_set => pref.got = pref.after.value
    /\ pref.op = "set" =>
           \A p \in unrelated_paths :
               walk(preferences, p, Default) = walk(pref.before, p, Default)

\* the steps of setup_project in the order the claim gives them
SetupSteps ==
    <<"analyse", "CLAUDE.md", "INITIAL.md", "directories", "examples", "config.json",
      "validate", "projects db">>

\* a call of setup_project returns in this step
setup_returns ==
    setup.pc # "returned" /\ setup'.pc = "returned"

\* every call returns a status 'success' or 'error'
setup_status_returned ==
    setup.pc = "returned" => setup.result.status \in {"success", "error"}

\* the steps run are the first steps of the order, and all of them when the
\* status is 'success'
setup_steps_ordered ==
    /\ is_prefix(setup.steps, SetupSteps)
    /\ (setup.pc = "returned" /\ setup.result.status = "success") => setup.steps = SetupSteps

\* a call that returns 'error' leaves the projects database as it was
setup_error_keeps_db ==
    (setup_returns /\ setup'.result.status = "error") =>
        (projects_db' = projects_db /\ projects_file' = projects_file)

\* C29: setup_project never raises and returns the status 'success' or
\* 'error'; the steps run in the order analyse, CLAUDE.md, INITIAL.md,
\* directories, examples, .context-engineer/config.json, validate, projects
\* database; when a step fails no later step runs, the projects database is
\* not updated and the status is 'error'; 'success' is returned only after all
\* the steps have completed.
C29_SetupSteps ==
    /\ [](setup_status_returned /\ setup_steps_ordered)
    /\ [][setup_error_keeps_db]_vars

\* the parts of C29 apart from the projects database
C29_StepsOnly ==
    [](setup_status_returned /\ setup_steps_ordered)

\* the file projects.json, unlike self.projects_db, is left as it was by a
\* call that returns 'error'
C29_FileOnly ==
    [][(setup_returns /\ setup'.result.status = "error") => projects_file' = projects_file]_vars

\* the Git operation the step makes, "none" when it makes none
operation_made ==
    IF Len(backup'.events) = Len(backup.events) + 1
    THEN backup'.events[Len(backup'.events)] ELSE "none"

\* a push is attempted only after the commit of the same call and only with
\* a remote origin
push_after_commit ==
    operation_made = "push" => (backup.events = <<"commit">> /\ repo.origin)

\* the status of a repository without changes is looked at in this step
unchanged_repository_asked ==
    backup.pc = "status" /\ ~repo.changes /\ ~repo.untracked

\* a repository without changes gets no commit, no push and 'no_changes'
no_changes_reported ==
    unchanged_repository_asked =>
        /\ backup'.pc = "returned"
        /\ backup'.result.status = "no_changes"
        /\ backup'.events = <<>>
        /\ repo' = repo

\* backup_completed tells whether the call created a commit
completed_iff_committed ==
    backup.pc = "returned" =>
        (backup.result.backup_completed
            <=> \E i \in 1..Len(backup.events) : backup.events[i] = "commit")

\* C30: auto_backup_session.  A push is attempted only after a commit was
\* created in the same call and only when a remote origin exists; a repository
\* without changes gets no commit and no push and the status 'no_changes';
\* backup_completed is true exactly when a commit was created, whatever the
\* push did; the call returns a status dictionary and never raises.
C30_BackupOrdering ==
    /\ [](backup.pc # "raised" /\ completed_iff_committed)
    /\ [][push_after_commit /\ no_changes_reported]_vars

\* the ordering of commit and push and the meaning of backup_completed, apart
\* from the calls that raise and the status of an unchanged repository
C30_OrderingOnly ==
    /\ []completed_iff_committed
    /\ [][push_after_commit]_vars
====
